---- MODULE Spec2Model ----
(***************************************************************************)
(* A model of the frame loop, the synchronization ring, the dynamic        *)
(* uniform alignment and the asset cache of the dragonglass Vulkan         *)
(* renderer.                                                               *)
(*                                                                         *)
(* Spec       : VulkanRenderer::render, one action per API call of the     *)
(*              handler, interleaved with the GPU queue and the            *)
(*              presentation engine.                                       *)
(* SpecAlign  : PbrPipelineData::calculate_dynamic_alignment.              *)
(* SpecAssets : AssetCache::generate_metadata, one action per iteration    *)
(*              of its loop over the asset names.                          *)
(* SpecLive   : Spec on a device whose graphics queue completes what is    *)
(*              submitted to it.                                           *)
(* SpecResize : Spec with the window resized between the steps.            *)
(* SpecDraw   : PbrScene::issue_commands.                                  *)
(* SpecGui    : GuiRenderer::issue_commands inside the frame loop.         *)
(* SpecUpdate : PbrScene::update.                                          *)
(* SpecShaders: ShaderCache.                                               *)
(* SpecUpload : CommandPool::create_device_local_buffer.                   *)
(* SpecMip    : Texture::generate_mipmaps.                                 *)
(* SpecCommandBuffers : the primary command buffers over swapchain         *)
(*              rebuilds.                                                  *)
(***************************************************************************)
EXTENDS Integers, Sequences, FiniteSets, TLC

\* SynchronizationSet::MAX_FRAMES_IN_FLIGHT
MAX_FRAMES_IN_FLIGHT == 2

\* UniformBufferObject::MAX_NUM_JOINTS
MAX_NUM_JOINTS == 128

\* PbrPipelineData::MAX_NUMBER_OF_MESHES
MAX_NUMBER_OF_MESHES == 100

\* Largest number of entities in the world that is updated.
MaxEntities == 2

\* Largest number of calls made on a shader cache.
MaxShaderCalls == 3

\* Number of render calls the application makes.
MaxCalls == 4

\* Number of images of the swapchain.
NumImages == 2

\* Largest struct size and largest device minimum alignment tried.
MaxSize == 12

MaxAlign == 9

\* Largest number of asset names handed to the asset cache.
MaxPlacements == 4

\* Largest number of distinct assets in the scene that is drawn.
MaxSceneAssets == 2

\* Largest width and height of a texture, and largest number of mip levels.
MaxTextureSize == 4

MaxMipLevels == 4

\* Largest number of images of a swapchain, and largest number of swapchain
\* rebuilds followed.
MaxImageCount == 3

MaxRebuilds == 3

Slots == 0 .. (MAX_FRAMES_IN_FLIGHT - 1)

Images == 0 .. (NumImages - 1)

VARIABLES
    pc,               \* position of the CPU inside render ("idle": between calls)
    calls,            \* number of render calls started
    current_frame,    \* VulkanRenderer.current_frame
    in_flight_fences, \* slot -> signaled?
    image_available,  \* slot -> signaled?
    render_finished,  \* slot -> signaled?
    inflight,         \* submissions the graphics queue has not completed
    presentQ,         \* present requests the present queue has not processed
    image_index,      \* image index of the current call
    acq,              \* acquire result of the current call
    after,            \* where render continues after recreate_swapchain
    generation,       \* number of swapchain rebuilds
    panic,            \* cause of the panic that ended the process, or "none"
    steps,            \* API calls of the current render call, in order
    reports,          \* stale reports received since the last rebuild
    slotLog,          \* slot of every render call that reached presentation
    submitted,        \* every submission made: call, semaphores and fence used
    presents,         \* every present request made: call and semaphore waited on
    rendered,         \* calls whose submission the GPU has completed
    displayed,        \* calls whose image the presentation engine has shown
    window_dimensions, \* App.window_dimensions
    extent,           \* swapchain().properties().extent
    handles,          \* generation of the swapchain the handles were built on
    scene_pipelines,  \* generation of the render pass the scene pipelines use
    command_buffers,  \* image -> what its recorded command buffer refers to
    rebuilds,         \* per rebuild: the dimensions asked for, the extent got
    frames,           \* per frame presented: swapchain extent and window size
    struct_size,      \* size_of::<DynamicUniformBufferObject>()
    minimum_ubo_alignment, \* limits.min_uniform_buffer_offset_alignment
    dynamic_alignment,     \* PbrPipelineData.dynamic_alignment
    apc,              \* "start", then "done" once the alignment is computed
    asset_names,      \* the names handed to AssetCache::new
    files,            \* name -> what GltfAsset::new loads for it
    gpc,              \* "loop", then "done" once generate_metadata returned
    position,         \* number of names the loop has been through
    metadata,         \* local metadata: name -> AssetMetadata
    mesh_offset,
    joint_offset,
    texture_offset,
    vertex_offset,
    index_offset,
    asset_index,
    cache_assets,     \* AssetCache.assets
    cache_metadata,   \* AssetCache.metadata
    placed,           \* per name gone through: the instance and index used
    scene,            \* asset_cache.metadata.values(), in iteration order
    dpc,              \* position inside issue_commands
    pass,             \* index of the alpha mode render_pbr_assets is at
    asset_cursor,     \* index of the metadata the pass is at
    instance_cursor,  \* instance of that metadata the pass is at
    commands,         \* the commands recorded into the command buffer
    upc,              \* position of the overlay frame: wait, record, submit
    gui_frame,        \* number of overlay frames started
    geometry_buffer,  \* GuiRenderer.geometry_buffer
    gui_recorded,     \* the buffer the command buffer being recorded binds
    gui_pending,      \* submitted overlay command buffers still executing
    gui_destroyed,    \* every buffer destroyed, and whether it was in use
    world,            \* the entities update queries: asset and instance offsets
    xpc,              \* position inside PbrScene::update
    entity_cursor,    \* index of the entity update is at
    mesh_cursor,      \* mesh node of that entity's asset update is at
    joint_cursor,     \* index the loop over skin.joints is at
    joint_matrices,   \* indices of ubo.joint_matrices written this update
    joint_warnings,   \* joint indices the limit warning was printed for
    skins,            \* the skins update has been through
    dynamic_writes,   \* dynamic uniform buffer slots written, and where
    flushes,          \* the ranges of the dynamic uniform buffer flushed, in bytes
    xpanic,           \* how update died, or "none"
    shader_cache,     \* ShaderCache: path -> the shader module cached for it
    shader_loads,     \* path -> number of times Shader::from_file loaded it
    modules_created,  \* number of shader modules created so far
    shader_calls,     \* number of calls made on the cache
    opc,              \* position inside create_device_local_buffer
    host_data,        \* the data handed to create_device_local_buffer
    staging_buffer,   \* the staging buffer: alive?, and what it holds
    device_local_buffer, \* the device-local buffer: alive?, and what it holds
    command_buffer,   \* the one-shot command buffer: none, allocated, ...
    fence_wait,       \* result of wait_for_fences: none, ok, error
    copy_done,        \* the graphics queue has executed the copy
    osteps,           \* the steps of the upload so far, in order
    mpc,              \* position inside generate_mipmaps
    texture_description, \* TextureDescription: width, height, mip_levels
    level,            \* the loop variable of generate_mipmaps
    mip_width,        \* width of level - 1
    mip_height,       \* height of level - 1
    layouts,          \* mip level -> the layout the image has there
    mip_commands,     \* the barriers and blits executed so far, in order
    bpc,              \* position inside initialize / recreate_swapchain / render
    framebuffers,     \* handles.framebuffers.len(): one per swapchain image
    framebuffer_generation, \* number of times the handles were rebuilt
    pool_command_buffers, \* command_pool.command_buffers: index -> what is recorded
    record_index,     \* the loop variable of record_all_command_buffers
    submit_index,     \* the image index handed to submit_command_buffer
    bpanic            \* how the renderer died, or "none"

rvars == << pc, calls, current_frame, in_flight_fences, image_available,
            render_finished, inflight, presentQ, image_index, acq, after,
            generation, panic, steps, reports, slotLog, submitted, presents,
            rendered, displayed >>

svars == << window_dimensions, extent, handles, scene_pipelines,
            command_buffers, rebuilds, frames >>

dvars == << struct_size, minimum_ubo_alignment, dynamic_alignment, apc >>

gvars == << asset_names, files, gpc, position, metadata, mesh_offset,
            joint_offset, texture_offset, vertex_offset, index_offset,
            asset_index, cache_assets, cache_metadata, placed >>

wvars == << scene, dpc, pass, asset_cursor, instance_cursor, commands >>

uvars == << upc, gui_frame, geometry_buffer, gui_recorded, gui_pending,
            gui_destroyed >>

xvars == << world, xpc, entity_cursor, mesh_cursor, joint_cursor, joint_matrices,
            joint_warnings, skins, dynamic_writes, flushes, xpanic >>

hvars == << shader_cache, shader_loads, modules_created, shader_calls >>

ovars == << opc, host_data, staging_buffer, device_local_buffer,
            command_buffer, fence_wait, copy_done, osteps >>

mvars == << mpc, texture_description, level, mip_width, mip_height, layouts,
            mip_commands >>

bvars == << bpc, framebuffers, framebuffer_generation, pool_command_buffers,
            record_index, submit_index, bpanic >>

vars == << rvars, svars, dvars, gvars, wvars, uvars, xvars, hvars, ovars, mvars, bvars >>

(***************************************************************************)
(* The synchronization ring.                                               *)
(***************************************************************************)

\* The semaphores and the fence CurrentFrameSynchronization::new picks out of
\* the vectors of the set, each named by its index.
CurrentFrameSynchronization_otherFence(frame) ==
    [ image_available |-> frame, render_finished |-> frame,
      in_flight |-> (frame + 1) % MAX_FRAMES_IN_FLIGHT ]

CurrentFrameSynchronization(frame) ==
    [ image_available |-> frame, render_finished |-> frame,
      in_flight |-> frame ]

\* The fences are created signaled, the semaphores unsignaled.
SynchronizationSetNew ==
    /\ in_flight_fences = [s \in Slots |-> TRUE]
    /\ image_available = [s \in Slots |-> FALSE]
    /\ render_finished = [s \in Slots |-> FALSE]

\* The window sizes the model tells apart.
Extents ==
    { [ width |-> 800, height |-> 600 ], [ width |-> 1024, height |-> 768 ] }

\* Swapchain::new(context, dimensions): the extent of the swapchain built.
SwapchainNew(dimensions) == [ extent |-> dimensions ]

\* What a command buffer recorded by record_single_command_buffer refers to:
\* the render pass and the framebuffer of the handles, the render area, and
\* the pipelines scene.issue_commands binds.
RecordSingleCommandBuffer(area, framebuffer, render_pass, pipelines) ==
    [ render_pass |-> render_pass, framebuffer |-> framebuffer,
      extent |-> area, pipelines |-> pipelines ]

\* record_all_command_buffers: command buffer index gets framebuffers[index].
RecordAllCommandBuffers(area, handles_generation, pipelines) ==
    [ index \in Images |->
        RecordSingleCommandBuffer(area, << handles_generation, index >>,
                                  handles_generation, pipelines) ]

\* The window as App::run creates it; VulkanRenderer::new builds the
\* swapchain and the handles for it; initialize builds the scene pipelines on
\* the render pass of these handles and records the command buffers.
SwapchainStateNew ==
    /\ window_dimensions = [ width |-> 800, height |-> 600 ]
    /\ extent = SwapchainNew(window_dimensions).extent
    /\ handles = 0
    /\ scene_pipelines = 0
    /\ command_buffers = RecordAllCommandBuffers(extent, 0, 0)
    /\ rebuilds = << >>
    /\ frames = {}

RendererNew ==
    /\ SynchronizationSetNew
    /\ SwapchainStateNew
    /\ pc = "idle"
    /\ calls = 0
    /\ current_frame = 0
    /\ inflight = {}
    /\ presentQ = << >>
    /\ image_index = 0
    /\ acq = "none"
    /\ after = "none"
    /\ generation = 0
    /\ panic = "none"
    /\ steps = << >>
    /\ reports = {}
    /\ slotLog = << >>
    /\ submitted = {}
    /\ presents = {}
    /\ rendered = {}
    /\ displayed = {}

\* The alignment is computed by PbrPipelineData::new, which render never
\* calls.
AlignIdle ==
    /\ struct_size = 0
    /\ minimum_ubo_alignment = 0
    /\ dynamic_alignment = 0
    /\ apc = "idle"

\* AssetCache::new before generate_metadata runs; render never runs it.
AssetCacheEmpty ==
    /\ position = 0
    /\ metadata = << >>
    /\ mesh_offset = 0
    /\ joint_offset = 0
    /\ texture_offset = 0
    /\ vertex_offset = 0
    /\ index_offset = 0
    /\ asset_index = 0
    /\ cache_assets = << >>
    /\ cache_metadata = << >>
    /\ placed = << >>

AssetsIdle ==
    /\ AssetCacheEmpty
    /\ asset_names = << >>
    /\ files = << >>
    /\ gpc = "idle"

\* No command buffer is being recorded.
DrawIdle ==
    /\ scene = << >>
    /\ dpc = "idle"
    /\ pass = 0
    /\ asset_cursor = 0
    /\ instance_cursor = 0
    /\ commands = << >>

\* Option::None of a GeometryBuffer: the buffer no frame created.
NoGeometryBuffer == [ created |-> 0, number_of_vertices |-> 0 ]

\* GuiRenderer::new: no geometry buffer yet; no overlay frame is drawn.
GuiRendererNew ==
    /\ gui_frame = 0
    /\ geometry_buffer = NoGeometryBuffer
    /\ gui_recorded = NoGeometryBuffer
    /\ gui_pending = {}
    /\ gui_destroyed = {}

GuiIdle == GuiRendererNew /\ upc = "idle"

\* UniformBufferObject with joint_matrices all identity: none written.
UniformBufferObjectNew ==
    /\ joint_matrices = {}
    /\ joint_warnings = {}
    /\ skins = {}
    /\ dynamic_writes = {}
    /\ flushes = {}
    /\ xpanic = "none"
    /\ entity_cursor = 0
    /\ mesh_cursor = 0
    /\ joint_cursor = 0

UpdateIdle == UniformBufferObjectNew /\ world = << >> /\ xpc = "idle"

\* The shader files the pipelines name.
ShaderPaths ==
    { "fullscreen_triangle.vert.spv", "post_process.frag.spv",
      "genbrdflut.frag.spv", "pbr.vert.spv", "pbr.frag.spv" }

\* ShaderCache::default(): an empty map; nothing loaded yet.
ShaderCacheDefault ==
    /\ shader_cache = << >>
    /\ shader_loads = [ path \in ShaderPaths |-> 0 ]
    /\ modules_created = 0
    /\ shader_calls = 0

\* No buffer, no command buffer, no fence: nothing is being uploaded.
UploadNothing ==
    /\ staging_buffer = [ alive |-> FALSE, data |-> << >> ]
    /\ device_local_buffer = [ alive |-> FALSE, data |-> << >> ]
    /\ command_buffer = "none"
    /\ fence_wait = "none"
    /\ copy_done = FALSE
    /\ osteps = << >>

UploadIdle == UploadNothing /\ host_data = << >> /\ opc = "idle"

\* A texture of one level whose mipmaps are not being generated.
TextureDescriptionDefault == [ width |-> 1, height |-> 1, mip_levels |-> 1 ]

MipStart ==
    /\ level = 1
    /\ mip_width = texture_description.width
    /\ mip_height = texture_description.height
    /\ layouts = [ mip \in 0 .. (texture_description.mip_levels - 1) |->
                      "TRANSFER_DST_OPTIMAL" ]
    /\ mip_commands = << >>

MipIdle == texture_description = TextureDescriptionDefault /\ MipStart /\ mpc = "idle"

\* CommandPool::new: no command buffer allocated yet.
CommandPoolNew ==
    /\ pool_command_buffers = [ index \in {} |-> << >> ]
    /\ framebuffer_generation = 0
    /\ record_index = 0
    /\ submit_index = 0
    /\ bpanic = "none"

CommandBuffersIdle == CommandPoolNew /\ framebuffers = NumImages /\ bpc = "idle"

Init == RendererNew /\ AlignIdle /\ AssetsIdle /\ DrawIdle /\ GuiIdle /\ UpdateIdle /\ ShaderCacheDefault /\ UploadIdle /\ MipIdle /\ CommandBuffersIdle

Sync == CurrentFrameSynchronization(current_frame)

Panic(cause) ==
    /\ pc' = "panicked"
    /\ panic' = cause

(***************************************************************************)
(* VulkanRenderer::render, one action per API call.                        *)
(***************************************************************************)

\* render is entered and blocks in wait_for_fence (timeout u64::MAX) until
\* the in-flight fence of the current slot is signaled.
WaitForFence_noWait ==
    /\ pc = "idle"
    /\ calls < MaxCalls
    /\ calls' = calls + 1
    /\ pc' = "acquire"
    /\ acq' = "none"
    /\ steps' = << "wait" >>
    /\ UNCHANGED << current_frame, in_flight_fences, image_available,
                    render_finished, inflight, presentQ, image_index, after,
                    generation, panic, reports, slotLog, submitted, presents,
                    rendered, displayed >>

WaitForFence_thenReset ==
    /\ pc = "idle"
    /\ calls < MaxCalls
    /\ in_flight_fences[Sync.in_flight]
    /\ calls' = calls + 1
    /\ pc' = "acquire"
    /\ acq' = "none"
    /\ in_flight_fences' = [in_flight_fences EXCEPT ![Sync.in_flight] = FALSE]
    /\ steps' = << "wait", "reset" >>
    /\ UNCHANGED << current_frame, image_available,
                    render_finished, inflight, presentQ, image_index, after,
                    generation, panic, reports, slotLog, submitted, presents,
                    rendered, displayed >>

WaitForFence ==
    /\ pc = "idle"
    /\ calls < MaxCalls
    /\ in_flight_fences[Sync.in_flight]
    /\ calls' = calls + 1
    /\ pc' = "acquire"
    /\ acq' = "none"
    /\ steps' = << "wait" >>
    /\ UNCHANGED << current_frame, in_flight_fences, image_available,
                    render_finished, inflight, presentQ, image_index, after,
                    generation, panic, reports, slotLog, submitted, presents,
                    rendered, displayed >>

\* acquire_next_image returned Ok((image_index, suboptimal)): the image
\* available semaphore of the slot will be signaled; the suboptimal flag is
\* discarded by the pattern Ok((image_index, _)).
AcquireOk ==
    /\ pc = "acquire"
    /\ \E img \in Images, suboptimal \in BOOLEAN :
          /\ image_index' = img
          /\ reports' = IF suboptimal
                           THEN reports \cup { "acquire_suboptimal" }
                           ELSE reports
    /\ image_available' = [image_available EXCEPT ![Sync.image_available] = TRUE]
    /\ acq' = "ok"
    /\ pc' = "reset"
    /\ steps' = Append(steps, "acquire")
    /\ UNCHANGED << calls, current_frame, in_flight_fences, render_finished,
                    inflight, presentQ, after, generation, panic, slotLog,
                    submitted, presents, rendered, displayed >>

\* acquire_next_image returned Err(ERROR_OUT_OF_DATE_KHR): the swapchain is
\* rebuilt and render returns.
AcquireOutOfDate_noReturn ==
    /\ pc = "acquire"
    /\ acq' = "out_of_date"
    /\ reports' = reports \cup { "acquire_out_of_date" }
    /\ after' = "reset"
    /\ pc' = "recreate"
    /\ steps' = Append(steps, "acquire")
    /\ UNCHANGED << calls, current_frame, in_flight_fences, image_available,
                    render_finished, inflight, presentQ, image_index,
                    generation, panic, slotLog, submitted, presents, rendered,
                    displayed >>

AcquireOutOfDate ==
    /\ pc = "acquire"
    /\ acq' = "out_of_date"
    /\ reports' = reports \cup { "acquire_out_of_date" }
    /\ after' = "idle"
    /\ pc' = "recreate"
    /\ steps' = Append(steps, "acquire")
    /\ UNCHANGED << calls, current_frame, in_flight_fences, image_available,
                    render_finished, inflight, presentQ, image_index,
                    generation, panic, slotLog, submitted, presents, rendered,
                    displayed >>

AcquireError_continue ==
    /\ pc = "acquire"
    /\ acq' = "error"
    /\ pc' = "reset"
    /\ steps' = Append(steps, "acquire")
    /\ UNCHANGED << calls, current_frame, in_flight_fences, image_available,
                    render_finished, inflight, presentQ, image_index, after,
                    generation, reports, slotLog, submitted, presents,
                    rendered, displayed, panic >>

\* acquire_next_image returned any other error: panic.
AcquireError ==
    /\ pc = "acquire"
    /\ acq' = "error"
    /\ Panic("acquire_error")
    /\ steps' = Append(steps, "acquire")
    /\ UNCHANGED << calls, current_frame, in_flight_fences, image_available,
                    render_finished, inflight, presentQ, image_index, after,
                    generation, reports, slotLog, submitted, presents,
                    rendered, displayed >>

\* reset_fence on the in-flight fence of the slot.
ResetFence ==
    /\ pc = "reset"
    /\ in_flight_fences' = [in_flight_fences EXCEPT ![Sync.in_flight] = FALSE]
    /\ pc' = "submit"
    /\ steps' = Append(steps, "reset")
    /\ UNCHANGED << calls, current_frame, image_available, render_finished,
                    inflight, presentQ, image_index, acq, after, generation,
                    panic, reports, slotLog, submitted, presents, rendered,
                    displayed >>

\* What submit_command_buffer hands to queue_submit: the command buffer of
\* the image index, waiting on image_available, signaling render_finished and
\* the in-flight fence of the CurrentFrameSynchronization it is given.
SubmitInfo_wrongSignal(call, img, sync) ==
    [ call |-> call, image |-> img, wait |-> sync.image_available,
      signal |-> (sync.render_finished + 1) % MAX_FRAMES_IN_FLIGHT,
      fence |-> sync.in_flight ]

SubmitInfo(call, img, sync) ==
    [ call |-> call, image |-> img, wait |-> sync.image_available,
      signal |-> sync.render_finished, fence |-> sync.in_flight ]

\* submit_command_buffer(image_index, graphics_queue, ..).unwrap()
SubmitCommandBuffer ==
    /\ pc = "submit"
    /\ steps' = Append(steps, "submit")
    /\ \/ /\ inflight' = inflight \cup { SubmitInfo(calls, image_index, Sync) }
          /\ submitted' = submitted \cup { SubmitInfo(calls, image_index, Sync) }
          /\ pc' = "present"
          /\ UNCHANGED panic
       \/ /\ Panic("submit_failed")
          /\ UNCHANGED << inflight, submitted >>
    /\ UNCHANGED << calls, current_frame, in_flight_fences, image_available,
                    render_finished, presentQ, image_index, acq, after,
                    generation, reports, slotLog, presents, rendered,
                    displayed >>

\* What present_rendered_image hands to queue_present: the image index,
\* waiting on render_finished of the CurrentFrameSynchronization it is given.
PresentInfo(call, img, sync, show) ==
    [ call |-> call, image |-> img, wait |-> sync.render_finished,
      show |-> show ]

\* The frame a successful present puts on screen: the extent of the swapchain
\* it was rendered and presented against, and the window size at that time.
FrameShown == [ call |-> calls, extent |-> extent, window |-> window_dimensions ]

\* present_rendered_image and the match on its result.  An out-of-date
\* present shows nothing, but its semaphore wait is still enqueued.
PresentSuboptimal_noRebuild ==
    /\ presentQ' = Append(presentQ, PresentInfo(calls, image_index, Sync, TRUE))
    /\ presents' = presents \cup { PresentInfo(calls, image_index, Sync, TRUE) }
    /\ reports' = reports \cup { "present_suboptimal" }
    /\ frames' = frames \cup { FrameShown }
    /\ pc' = "advance"
    /\ UNCHANGED << after, panic >>

PresentSuboptimal ==
    /\ presentQ' = Append(presentQ, PresentInfo(calls, image_index, Sync, TRUE))
    /\ presents' = presents \cup { PresentInfo(calls, image_index, Sync, TRUE) }
    /\ reports' = reports \cup { "present_suboptimal" }
    /\ frames' = frames \cup { FrameShown }
    /\ after' = "advance"
    /\ pc' = "recreate"
    /\ UNCHANGED panic

PresentOk ==
    /\ presentQ' = Append(presentQ, PresentInfo(calls, image_index, Sync, TRUE))
    /\ presents' = presents \cup { PresentInfo(calls, image_index, Sync, TRUE) }
    /\ frames' = frames \cup { FrameShown }
    /\ pc' = "advance"
    /\ UNCHANGED << reports, after, panic >>

PresentOutOfDate ==
    /\ presentQ' = Append(presentQ, PresentInfo(calls, image_index, Sync, FALSE))
    /\ presents' = presents \cup { PresentInfo(calls, image_index, Sync, FALSE) }
    /\ reports' = reports \cup { "present_out_of_date" }
    /\ after' = "advance"
    /\ pc' = "recreate"
    /\ UNCHANGED << panic, frames >>

PresentError ==
    /\ Panic("present_error")
    /\ UNCHANGED << presentQ, presents, reports, after, frames >>

PresentRenderedImage ==
    /\ pc = "present"
    /\ steps' = Append(steps, "present")
    /\ slotLog' = Append(slotLog, current_frame)
    /\ \/ PresentOk
       \/ PresentSuboptimal
       \/ PresentOutOfDate
       \/ PresentError
    /\ UNCHANGED << calls, current_frame, in_flight_fences, image_available,
                    render_finished, inflight, image_index, acq, generation,
                    submitted, rendered, displayed >>
    /\ UNCHANGED << window_dimensions, extent, handles, scene_pipelines,
                    command_buffers, rebuilds >>

\* recreate_swapchain: wait_idle returns once every queue is idle, then the
\* swapchain is rebuilt for app.window_dimensions, the handles are rebuilt on
\* it and the command buffers are recorded again; the pipelines of the scene
\* are not touched.  A failure of the wait or of Swapchain::new panics.
RecreateSwapchain ==
    /\ pc = "recreate"
    /\ inflight = {}
    /\ presentQ = << >>
    /\ steps' = Append(steps, "recreate")
    /\ \/ /\ generation' = generation + 1
          /\ extent' = SwapchainNew(window_dimensions).extent
          /\ handles' = generation'
          /\ command_buffers' =
                RecordAllCommandBuffers(extent', handles', scene_pipelines)
          /\ rebuilds' = Append(rebuilds, [ requested |-> window_dimensions,
                                            extent |-> extent' ])
          /\ reports' = {}
          /\ pc' = after
          /\ UNCHANGED panic
       \/ /\ Panic("recreate_failed")
          /\ UNCHANGED << generation, reports, extent, handles,
                          command_buffers, rebuilds >>
    /\ UNCHANGED << window_dimensions, scene_pipelines, frames >>
    /\ UNCHANGED << calls, current_frame, in_flight_fences, image_available,
                    render_finished, inflight, presentQ, image_index, acq,
                    after, slotLog, submitted, presents, rendered, displayed >>

NextFrame_noModulo(frame) == frame + (1 + frame)

\* self.current_frame += (1 + self.current_frame) % MAX_FRAMES_IN_FLIGHT
NextFrame(frame) == frame + ((1 + frame) % MAX_FRAMES_IN_FLIGHT)

AdvanceFrame ==
    /\ pc = "advance"
    /\ current_frame' = NextFrame(current_frame)
    /\ pc' = "idle"
    /\ UNCHANGED << calls, in_flight_fences, image_available, render_finished,
                    inflight, presentQ, image_index, acq, after, generation,
                    panic, steps, reports, slotLog, submitted, presents,
                    rendered, displayed >>

(***************************************************************************)
(* The device: the graphics queue completes a submission once the          *)
(* semaphore it waits on is signaled; the present queue processes its      *)
(* requests in order, each once the semaphore it waits on is signaled.     *)
(***************************************************************************)

QueueExecute_noFence ==
    \E s \in inflight :
        /\ image_available[s.wait]
        /\ image_available' = [image_available EXCEPT ![s.wait] = FALSE]
        /\ render_finished' = [render_finished EXCEPT ![s.signal] = TRUE]
        /\ inflight' = inflight \ { s }
        /\ rendered' = rendered \cup { s.call }
        /\ UNCHANGED << pc, calls, current_frame, presentQ, image_index, acq,
                        after, generation, panic, steps, reports, slotLog,
                        submitted, presents, displayed, in_flight_fences >>

QueueExecute ==
    \E s \in inflight :
        /\ image_available[s.wait]
        /\ image_available' = [image_available EXCEPT ![s.wait] = FALSE]
        /\ render_finished' = [render_finished EXCEPT ![s.signal] = TRUE]
        /\ in_flight_fences' = [in_flight_fences EXCEPT ![s.fence] = TRUE]
        /\ inflight' = inflight \ { s }
        /\ rendered' = rendered \cup { s.call }
        /\ UNCHANGED << pc, calls, current_frame, presentQ, image_index, acq,
                        after, generation, panic, steps, reports, slotLog,
                        submitted, presents, displayed >>

PresentationEngine ==
    /\ presentQ # << >>
    /\ render_finished[Head(presentQ).wait]
    /\ render_finished' = [render_finished EXCEPT ![Head(presentQ).wait] = FALSE]
    /\ displayed' = IF Head(presentQ).show
                       THEN displayed \cup { Head(presentQ).call }
                       ELSE displayed
    /\ presentQ' = Tail(presentQ)
    /\ UNCHANGED << pc, calls, current_frame, in_flight_fences,
                    image_available, inflight, image_index, acq, after,
                    generation, panic, steps, reports, slotLog, submitted,
                    presents, rendered >>

\* The subsystems render does not touch.
RenderFrame == UNCHANGED << dvars, gvars, wvars, uvars, xvars, hvars, ovars, mvars, bvars >>

\* The steps of render that leave the swapchain, what was built on it and
\* the window size alone.
SwapchainKept == UNCHANGED svars

Next ==
    \/ WaitForFence /\ SwapchainKept /\ RenderFrame
    \/ AcquireOk /\ SwapchainKept /\ RenderFrame
    \/ AcquireOutOfDate /\ SwapchainKept /\ RenderFrame
    \/ AcquireError /\ SwapchainKept /\ RenderFrame
    \/ ResetFence /\ SwapchainKept /\ RenderFrame
    \/ SubmitCommandBuffer /\ SwapchainKept /\ RenderFrame
    \/ PresentRenderedImage /\ RenderFrame
    \/ RecreateSwapchain /\ RenderFrame
    \/ AdvanceFrame /\ SwapchainKept /\ RenderFrame
    \/ QueueExecute /\ SwapchainKept /\ RenderFrame
    \/ PresentationEngine /\ SwapchainKept /\ RenderFrame

Spec == Init /\ [][Next]_vars

\* WindowEvent::Resized, handled by the event loop between two render calls:
\* the new size is stored in app.window_dimensions and nothing else happens.
WindowResized ==
    /\ pc = "idle"
    /\ \E size \in Extents \ { window_dimensions } :
          window_dimensions' = size
    /\ UNCHANGED << rvars, extent, handles, scene_pipelines, command_buffers,
                    rebuilds, frames >>

NextResize ==
    \/ Next
    \/ WindowResized /\ RenderFrame

\* The render loop in a window the user resizes.
SpecResize == Init /\ [][NextResize]_vars

(***************************************************************************)
(* PbrPipelineData::calculate_dynamic_alignment.                           *)
(***************************************************************************)

RECURSIVE BitAnd(_, _)
\* a & b on naturals.
BitAnd(a, b) ==
    IF a = 0 \/ b = 0
       THEN 0
       ELSE (a % 2) * (b % 2) + 2 * BitAnd(a \div 2, b \div 2)

\* a & !b on u64: the bits of a that are not bits of b.
AndNot(a, b) == a - BitAnd(a, b)

\* The sizes and alignments tried are far below 2^64: the u64 addition does
\* not wrap.
CalculateDynamicAlignment_roundsDown(size, alignment) ==
    IF alignment > 0
       THEN AndNot(size, alignment - 1)
       ELSE size

CalculateDynamicAlignment(size, alignment) ==
    IF alignment > 0
       THEN AndNot(size + alignment - 1, alignment - 1)
       ELSE size

AlignInit ==
    /\ struct_size \in 0 .. MaxSize
    /\ minimum_ubo_alignment \in 0 .. MaxAlign
    /\ dynamic_alignment = 0
    /\ apc = "start"

PbrPipelineDataNew ==
    /\ apc = "start"
    /\ dynamic_alignment' =
          CalculateDynamicAlignment(struct_size, minimum_ubo_alignment)
    /\ apc' = "done"
    /\ UNCHANGED << struct_size, minimum_ubo_alignment >>

AlignNext == PbrPipelineDataNew /\ UNCHANGED << rvars, svars, gvars, wvars, uvars, xvars, hvars, ovars, mvars, bvars >>

InitAlign == RendererNew /\ AlignInit /\ AssetsIdle /\ DrawIdle /\ GuiIdle /\ UpdateIdle /\ ShaderCacheDefault /\ UploadIdle /\ MipIdle /\ CommandBuffersIdle

SpecAlign == InitAlign /\ [][AlignNext]_vars

IsPowerOfTwo(n) == \E k \in 0 .. n : 2 ^ k = n

IsSmallestMultipleAtLeast(m, size, alignment) ==
    /\ m % alignment = 0
    /\ m >= size
    /\ m - alignment < size

\* C8 as stated: for every alignment A > 0 the result is the smallest
\* multiple of A that is >= S, and for A = 0 it is S.
C8_SmallestMultipleAnyAlignment ==
    apc = "done" =>
        IF minimum_ubo_alignment > 0
           THEN IsSmallestMultipleAtLeast(dynamic_alignment, struct_size,
                                          minimum_ubo_alignment)
           ELSE dynamic_alignment = struct_size

\* C8 as amended: for every alignment A that is a power of two the result
\* is the smallest multiple of A that is >= S, and for A = 0 it is S.
C8_SmallestMultiplePowerOfTwo ==
    apc = "done" =>
        /\ minimum_ubo_alignment = 0 => dynamic_alignment = struct_size
        /\ IsPowerOfTwo(minimum_ubo_alignment) =>
              IsSmallestMultipleAtLeast(dynamic_alignment, struct_size,
                                        minimum_ubo_alignment)

C8_Witness ==
    /\ apc = "done"
    /\ IsPowerOfTwo(minimum_ubo_alignment)
    /\ minimum_ubo_alignment > 1
    /\ struct_size % minimum_ubo_alignment # 0
    /\ dynamic_alignment > struct_size
(***************************************************************************)
(* Properties of the frame loop.                                           *)
(***************************************************************************)

HasStep(name) == \E i \in 1 .. Len(steps) : steps[i] = name

\* C1: the k-th render call that reaches presentation (k = 0, 1, 2, ..)
\* uses slot k mod MAX_FRAMES_IN_FLIGHT.
C1_SlotIsCounterModRing ==
    \A k \in 1 .. Len(slotLog) : slotLog[k] = (k - 1) % MAX_FRAMES_IN_FLIGHT

StepOrderClaimed == << "wait", "reset", "acquire", "submit", "present" >>

StepOrderOfCode == << "wait", "acquire", "reset", "submit", "present" >>

\* C2 as stated: a render call that reaches its present call has made the
\* calls wait, reset, acquire, submit, present, in this order.
C2_OrderWaitResetAcquire ==
    HasStep("present") =>
        /\ Len(steps) >= 5
        /\ SubSeq(steps, 1, 5) = StepOrderClaimed

\* C2 as amended: a render call that reaches its present call has made the
\* calls wait, acquire, reset, submit, present, in this order.
C2_OrderWaitAcquireReset ==
    HasStep("present") =>
        /\ Len(steps) >= 5
        /\ SubSeq(steps, 1, 5) = StepOrderOfCode

C2_Witness == pc = "advance" /\ steps = StepOrderOfCode

\* C3: a render call whose acquire reported OutOfDate resets no fence,
\* submits nothing and presents nothing; it rebuilds the swapchain and
\* returns.
C3_OutOfDateAbandonsFrame ==
    acq = "out_of_date" =>
        /\ \A i \in 1 .. Len(steps) :
              steps[i] \notin { "reset", "submit", "present" }
        /\ \A s \in submitted : s.call # calls
        /\ \A p \in presents : p.call # calls
        /\ pc \in { "recreate", "idle", "panicked" }
        /\ pc = "idle" => steps = << "wait", "acquire", "recreate" >>

C3_Witness ==
    /\ acq = "out_of_date"
    /\ pc = "idle"
    /\ generation >= 1
    /\ steps = << "wait", "acquire", "recreate" >>

\* C4 as stated: no out-of-date or suboptimal report, from acquire or from
\* present, is still waiting for its rebuild when acquire is called next.
C4_EveryReportRebuilt == pc = "acquire" => reports = {}

HandledReports == reports \ { "acquire_suboptimal" }

\* C4 as amended: while an out-of-date report of acquire or an out-of-date
\* or suboptimal report of present waits for its rebuild, render is in
\* recreate_swapchain, and it panics only when the rebuild fails; the
\* suboptimal flag of a successful acquire alone is left without a rebuild.
C4_HandledReportsRebuilt ==
    /\ pc = "acquire" => reports \subseteq { "acquire_suboptimal" }
    /\ HandledReports # {} =>
          /\ pc \in { "recreate", "panicked" }
          /\ pc = "panicked" => panic = "recreate_failed"

C4_Witness ==
    /\ pc = "advance"
    /\ Len(steps) = 6
    /\ steps[6] = "recreate"
    /\ reports = {}
    /\ generation >= 1

\* C5: at most MAX_FRAMES_IN_FLIGHT submissions are not yet completed (their
\* fence not yet signaled by the queue).
C5_FramesInFlightBounded == Cardinality(inflight) <= MAX_FRAMES_IN_FLIGHT

C5_Witness == Cardinality(inflight) = MAX_FRAMES_IN_FLIGHT

\* C6: when acquire is handed the image available semaphore of slot S, the
\* in-flight fence of slot S is signaled and no submission waiting on that
\* semaphore is still to be completed.
C6_SemaphoreReusedAfterFence ==
    pc = "acquire" =>
        /\ in_flight_fences[Sync.image_available]
        /\ \A s \in inflight : s.wait # Sync.image_available

C6_Witness ==
    /\ pc = "acquire"
    /\ \E s \in submitted : s.wait = Sync.image_available

\* C7: every present request waits on the render finished semaphore that the
\* submission of the same render call signals, and no image is shown before
\* the submission of its render call has completed.
C7_PresentWaitsOnRenderFinished ==
    /\ \A p \in presents :
          \E s \in submitted : s.call = p.call /\ s.signal = p.wait
    /\ displayed \subseteq rendered

C7_Witness == \E c \in displayed : \E p \in presents : p.call = c
\* C22: an error of acquire or present other than the stale-swapchain codes
\* panics in the render call that sees it, and after it render takes no
\* further step: nothing is submitted or presented, no fence is reset and
\* the frame counter does not advance.
C22_OtherErrorsPanic ==
    [][ /\ acq' = "error" => pc' = "panicked"
        /\ panic \in { "acquire_error", "present_error" } =>
              /\ pc' = "panicked"
              /\ UNCHANGED << calls, current_frame, steps, submitted,
                              presents, generation >>
              /\ \A slot \in Slots :
                    in_flight_fences[slot] => in_flight_fences'[slot] ]_vars

\* The present of the second or a later render call returned an error.
C22_Witness ==
    /\ panic = "present_error"
    /\ calls >= 2
    /\ pc = "panicked"

\* C26: whatever render calls were made, presented or abandoned, the frame
\* counter stays below MAX_FRAMES_IN_FLIGHT: it always names a slot of the
\* synchronization set.
C26_CurrentFrameInsideRing ==
    /\ current_frame >= 0
    /\ current_frame < MAX_FRAMES_IN_FLIGHT

\* Three render calls are through, one of them abandoned with a rebuild,
\* and the counter has been advanced from its last slot.
C26_Witness ==
    /\ pc = "idle"
    /\ calls >= 3
    /\ rebuilds # << >>
    /\ Len(slotLog) >= 2
    /\ slotLog[Len(slotLog)] = MAX_FRAMES_IN_FLIGHT - 1
    /\ slotLog[Len(slotLog) - 1] = MAX_FRAMES_IN_FLIGHT - 1

\* The frame loop on a device that completes what is submitted to its
\* graphics queue.
SpecLive == Spec /\ WF_vars(QueueExecute /\ SwapchainKept /\ RenderFrame)

\* C27: on a device that completes every submission, the fence the next
\* render call waits for is eventually signaled, so the wait returns; this
\* rests on every unsignaled fence being owned by a submission in flight or
\* by the render call that has reset it and is about to submit.
C27_FenceWaitReturns ==
    /\ [] ( \A slot \in Slots :
               in_flight_fences[slot]
               \/ ( \E s \in inflight : s.fence = slot )
               \/ ( slot = Sync.in_flight /\ pc \in { "submit", "panicked" } ) )
    /\ ( pc = "idle" ~> in_flight_fences[Sync.in_flight] )

\* A render call is about to wait for a fence that is not signaled yet.
C27_Witness ==
    /\ pc = "idle"
    /\ calls >= 2
    /\ calls < MaxCalls
    /\ ~ in_flight_fences[Sync.in_flight]

(***************************************************************************)
(* AssetCache::generate_metadata.                                          *)
(***************************************************************************)

Names == { "cube.glb", "sphere.glb", "helmet.glb" }

\* What a loaded asset counts: meshes, joints over all its skins, textures,
\* vertices (vertices.len() / vertex_stride()) and indices.
Shapes ==
    { [ meshes |-> 2, joints |-> 0, textures |-> 1, vertices |-> 4,
        indices |-> 6 ],
      [ meshes |-> 1, joints |-> 4, textures |-> 2, vertices |-> 3,
        indices |-> 3 ],
      [ meshes |-> 3, joints |-> 2, textures |-> 0, vertices |-> 5,
        indices |-> 9 ] }

AssetMetadataDefault ==
    [ index |-> 0, texture_offset |-> 0, vertex_offset |-> 0,
      index_offset |-> 0, instances |-> << >> ]

\* !metadata.contains_key(asset_name)
FirstVisit_always(map, name) == TRUE

FirstVisit(map, name) == name \notin DOMAIN map

\* mesh_offset += asset.number_of_meshes, on every pass of the loop
AdvanceMeshOffset_firstVisitOnly(offset, first_visit, asset) ==
    IF first_visit THEN offset + asset.meshes ELSE offset

AdvanceMeshOffset_byOne(offset, first_visit, asset) == offset + 1

AdvanceMeshOffset(offset, first_visit, asset) == offset + asset.meshes

\* joint_offset += skin.joints.len() for every skin the walk over the asset
\* meets, on every pass of the loop
AdvanceJointOffset_firstVisitOnly(offset, first_visit, asset) ==
    IF first_visit THEN offset + asset.joints ELSE offset

AdvanceJointOffset(offset, first_visit, asset) == offset + asset.joints

\* texture_offset, vertex_offset and index_offset advance by the count of the
\* asset just loaded, inside `if first_visit`
AdvanceStorageOffset_everyVisit(offset, first_visit, count) == offset + count

AdvanceStorageOffset(offset, first_visit, count) ==
    IF first_visit THEN offset + count ELSE offset

\* GltfAsset::new
GltfAssetNew(name) == [ name |-> name, shape |-> files[name] ]

AssetsInit ==
    /\ AssetCacheEmpty
    /\ asset_names \in UNION { [ 1 .. n -> Names ] : n \in 0 .. MaxPlacements }
    /\ files \in [ Names -> Shapes ]
    /\ gpc = "loop"

\* One pass of the loop over asset_names.
GenerateMetadataStep ==
    /\ gpc = "loop"
    /\ position < Len(asset_names)
    /\ LET asset_name == asset_names[position + 1]
           first_visit == FirstVisit(metadata, asset_name)
           entry == IF asset_name \in DOMAIN metadata
                       THEN metadata[asset_name]
                       ELSE AssetMetadataDefault
           updated == IF first_visit
                         THEN [ entry EXCEPT
                                  !.index = asset_index,
                                  !.texture_offset = texture_offset,
                                  !.vertex_offset = vertex_offset,
                                  !.index_offset = index_offset ]
                         ELSE entry
           loaded == GltfAssetNew(asset_name)
           assets == IF first_visit
                        THEN Append(cache_assets, loaded)
                        ELSE cache_assets
           instance == [ mesh_offset |-> mesh_offset,
                         joint_offset |-> joint_offset ]
           asset == assets[updated.index + 1].shape
       IN  /\ cache_assets' = assets
           /\ asset_index' = IF first_visit THEN asset_index + 1
                                            ELSE asset_index
           /\ texture_offset' =
                 AdvanceStorageOffset(texture_offset, first_visit,
                                      loaded.shape.textures)
           /\ vertex_offset' =
                 AdvanceStorageOffset(vertex_offset, first_visit,
                                      loaded.shape.vertices)
           /\ index_offset' =
                 AdvanceStorageOffset(index_offset, first_visit,
                                      loaded.shape.indices)
           /\ joint_offset' =
                 AdvanceJointOffset(joint_offset, first_visit, asset)
           /\ mesh_offset' = AdvanceMeshOffset(mesh_offset, first_visit, asset)
           /\ metadata' =
                 [ n \in DOMAIN metadata \cup { asset_name } |->
                     IF n = asset_name
                        THEN [ updated EXCEPT
                                 !.instances = Append(@, instance) ]
                        ELSE metadata[n] ]
           /\ placed' = Append(placed,
                               [ name |-> asset_name,
                                 index |-> updated.index,
                                 asset |-> asset,
                                 first_visit |-> first_visit,
                                 instance |-> instance ])
    /\ position' = position + 1
    /\ UNCHANGED << asset_names, files, gpc, cache_metadata >>

\* self.metadata = metadata
GenerateMetadataReturn ==
    /\ gpc = "loop"
    /\ position = Len(asset_names)
    /\ cache_metadata' = metadata
    /\ gpc' = "done"
    /\ UNCHANGED << asset_names, files, position, metadata, mesh_offset,
                    joint_offset, texture_offset, vertex_offset, index_offset,
                    asset_index, cache_assets, placed >>

\* The subsystems generate_metadata does not touch.
AssetsFrame == UNCHANGED << rvars, svars, dvars, wvars, uvars, xvars, hvars, ovars, mvars, bvars >>

AssetsNext ==
    \/ GenerateMetadataStep /\ AssetsFrame
    \/ GenerateMetadataReturn /\ AssetsFrame

InitAssets == RendererNew /\ AlignIdle /\ AssetsInit /\ DrawIdle /\ GuiIdle /\ UpdateIdle /\ ShaderCacheDefault /\ UploadIdle /\ MipIdle /\ CommandBuffersIdle

SpecAssets == InitAssets /\ [][AssetsNext]_vars

RECURSIVE FlatMap(_, _, _)
\* assets.iter().flat_map(|asset| asset.<field>) over the first n assets,
\* every element tagged with the asset it comes from.
FlatMap(assets, field, n) ==
    IF n = 0
       THEN << >>
       ELSE FlatMap(assets, field, n - 1)
               \o [ k \in 1 .. assets[n].shape[field] |-> assets[n].name ]

\* create_geometry_buffer: the vertices and the indices of all assets, in
\* the order of AssetCache.assets (vertices counted in whole vertices).
GeometryBufferVertices == FlatMap(cache_assets, "vertices", Len(cache_assets))

GeometryBufferIndices == FlatMap(cache_assets, "indices", Len(cache_assets))

\* AssetCache::textures
TextureList == FlatMap(cache_assets, "textures", Len(cache_assets))

Occurrences(name) ==
    { k \in 1 .. Len(asset_names) : asset_names[k] = name }

Loads(name) ==
    { i \in 1 .. Len(cache_assets) : cache_assets[i].name = name }

\* C9: when generate_metadata has returned, every name of the list, however
\* often it occurs, has been loaded exactly once, and every occurrence used
\* the same AssetMetadata.index, that of the asset loaded for the name.
C9_LoadedOncePerName ==
    gpc = "done" =>
        /\ \A n \in Names :
              Cardinality(Loads(n)) = IF Occurrences(n) = {} THEN 0 ELSE 1
        /\ \A k \in 1 .. Len(placed) :
              /\ placed[k].index = cache_metadata[placed[k].name].index
              /\ cache_assets[placed[k].index + 1].name = placed[k].name

C9_Witness ==
    /\ gpc = "done"
    /\ \E n \in Names :
          /\ Cardinality(Occurrences(n)) >= 2
          /\ Cardinality(Loads(n)) = 1
    /\ Len(cache_assets) >= 2

RECURSIVE MeshesBefore(_)
\* The mesh counts of the first k placements, summed.
MeshesBefore(k) ==
    IF k = 0 THEN 0 ELSE MeshesBefore(k - 1) + files[asset_names[k]].meshes

\* C10: the mesh_offset of the k-th placement is the sum of the mesh counts
\* of the placements before it, for first and for repeated names alike.
C10_MeshOffsetIsPrefixSum ==
    \A k \in 1 .. Len(placed) :
        placed[k].instance.mesh_offset = MeshesBefore(k - 1)

C10_Witness ==
    /\ gpc = "done"
    /\ \E k \in 2 .. Len(placed) :
          /\ ~placed[k].first_visit
          /\ \E j \in 1 .. (k - 1) :
                /\ ~placed[j].first_visit
                /\ placed[k].instance.mesh_offset
                      > placed[j].instance.mesh_offset

RECURSIVE InstanceCount(_, _)
\* The number of InstanceMetadata entries the map holds under the names.
InstanceCount(map, names) ==
    IF names = {}
       THEN 0
       ELSE LET name == CHOOSE n \in names : TRUE
            IN  Len(map[name].instances) + InstanceCount(map, names \ { name })

\* C29: the dynamic-uniform slot ranges [mesh_offset, mesh_offset +
\* mesh_count) of two different placements never overlap, and the instance
\* records are append-only: the map holds one InstanceMetadata per placement
\* request gone through, and the map generate_metadata leaves behind holds
\* one per name it was given.
C29_SlotRangesDisjointInstancesAppendOnly ==
    /\ \A j, k \in 1 .. Len(placed) :
          j # k =>
             ( placed[j].instance.mesh_offset
                  .. (placed[j].instance.mesh_offset + placed[j].asset.meshes - 1) )
             \cap
             ( placed[k].instance.mesh_offset
                  .. (placed[k].instance.mesh_offset + placed[k].asset.meshes - 1) )
             = {}
    /\ InstanceCount(metadata, DOMAIN metadata) = position
    /\ gpc = "done" =>
          InstanceCount(cache_metadata, DOMAIN cache_metadata) = Len(asset_names)

\* Four placements of two names, each name placed twice.
C29_Witness ==
    /\ gpc = "done"
    /\ Len(placed) = 4
    /\ Cardinality(DOMAIN cache_metadata) = 2
    /\ \A name \in DOMAIN cache_metadata :
          Len(cache_metadata[name].instances) = 2

RECURSIVE JointsBefore(_)
\* The joint counts of the first k placements, summed.
JointsBefore(k) ==
    IF k = 0 THEN 0 ELSE JointsBefore(k - 1) + files[asset_names[k]].joints

\* C11: the joint_offset of the k-th placement is the sum of the skin joint
\* counts of the placements before it, an asset without skins adding 0.
C11_JointOffsetIsPrefixSum ==
    \A k \in 1 .. Len(placed) :
        placed[k].instance.joint_offset = JointsBefore(k - 1)

\* cube (no joints) twice, then sphere (4 joints) twice: 0, 0, 0, 4.
C11_Witness ==
    /\ gpc = "done"
    /\ asset_names = << "cube.glb", "cube.glb", "sphere.glb", "sphere.glb" >>
    /\ files["cube.glb"].joints = 0
    /\ files["sphere.glb"].joints = 4
    /\ [ k \in 1 .. 4 |-> placed[k].instance.joint_offset ] = << 0, 0, 0, 4 >>

FirstOccurrence(name) ==
    CHOOSE k \in Occurrences(name) : \A j \in Occurrences(name) : k <= j

\* The names seen, among the names gone through so far, before name was.
FirstSeenBefore(name) ==
    { m \in DOMAIN metadata : FirstOccurrence(m) < FirstOccurrence(name) }

RECURSIVE SumOver(_, _)
SumOver(names, field) ==
    IF names = {}
       THEN 0
       ELSE LET n == CHOOSE m \in names : TRUE
            IN  files[n][field] + SumOver(names \ { n }, field)

\* The elements offset + 1 .. offset + count of list all come from name.
RangeBelongsTo(list, offset, count, name) ==
    /\ offset + count <= Len(list)
    /\ \A k \in 1 .. count : list[offset + k] = name

\* C12: at every pass of the loop, the texture, vertex and index offsets of
\* every asset seen are the sums of the counts of the assets first seen
\* before it, they are where the asset starts in the texture list and in the
\* vertices and indices of the geometry buffer, and the running totals are
\* the lengths of these lists.
C12_StorageOffsets ==
    /\ \A n \in DOMAIN metadata :
          /\ metadata[n].texture_offset = SumOver(FirstSeenBefore(n), "textures")
          /\ metadata[n].vertex_offset = SumOver(FirstSeenBefore(n), "vertices")
          /\ metadata[n].index_offset = SumOver(FirstSeenBefore(n), "indices")
          /\ RangeBelongsTo(TextureList, metadata[n].texture_offset,
                            files[n].textures, n)
          /\ RangeBelongsTo(GeometryBufferVertices, metadata[n].vertex_offset,
                            files[n].vertices, n)
          /\ RangeBelongsTo(GeometryBufferIndices, metadata[n].index_offset,
                            files[n].indices, n)
    /\ texture_offset = Len(TextureList)
    /\ vertex_offset = Len(GeometryBufferVertices)
    /\ index_offset = Len(GeometryBufferIndices)

\* A name placed twice, then a new name that starts behind it.
C12_Witness ==
    /\ gpc = "done"
    /\ \E k \in 3 .. Len(placed) :
          /\ placed[k].first_visit
          /\ ~placed[k - 1].first_visit
          /\ cache_metadata[placed[k].name].texture_offset > 0
          /\ cache_metadata[placed[k].name].vertex_offset > 0
          /\ cache_metadata[placed[k].name].index_offset > 0
(***************************************************************************)
(* Swapchain rebuild and window resize.                                    *)
(***************************************************************************)

\* The generations of the GPU objects the renderer state refers to: the
\* swapchain, the handles (image views, framebuffers, render pass) and the
\* pipelines of the scene.
ReferencedByState == { generation, handles, scene_pipelines }

\* The generations of the GPU objects the recorded command buffers refer to.
ReferencedByCommandBuffers ==
    UNION { { command_buffers[i].render_pass,
              command_buffers[i].framebuffer[1],
              command_buffers[i].pipelines } : i \in DOMAIN command_buffers }

\* C14: after two rebuilds in a row for the same window extent, the swapchain
\* had the extent asked for both times, and neither the renderer state nor
\* the recorded command buffers refer to a GPU object of an earlier
\* generation.
C14_RebuildTwiceLeavesNoPriorGeneration ==
    ( /\ Len(rebuilds) >= 2
      /\ rebuilds[Len(rebuilds) - 1].requested = rebuilds[Len(rebuilds)].requested )
    => /\ rebuilds[Len(rebuilds) - 1].extent = rebuilds[Len(rebuilds) - 1].requested
       /\ rebuilds[Len(rebuilds)].extent = rebuilds[Len(rebuilds)].requested
       /\ ReferencedByState = { generation }
       /\ ReferencedByCommandBuffers = { generation }

\* C23: whenever render is about to acquire an image, the framebuffers and
\* the render-pass-dependent pipelines are those built on the current
\* swapchain, and every primary command buffer is recorded against the
\* framebuffer of its own index of that generation.
C23_RebuiltBeforeNextAcquire ==
    pc = "acquire" =>
        /\ handles = generation
        /\ scene_pipelines = generation
        /\ \A index \in DOMAIN command_buffers :
              /\ command_buffers[index].framebuffer = << generation, index >>
              /\ command_buffers[index].render_pass = generation
              /\ command_buffers[index].pipelines = generation

\* C16: every frame that was submitted and presented was rendered against a
\* swapchain whose extent is the size the window had at that time.
C16_NoFrameAgainstStaleExtent ==
    \A frame \in frames : frame.extent = frame.window

(***************************************************************************)
(* GuiRenderer::issue_commands, called once per frame while the command    *)
(* buffer of the frame is recorded.  The frame around it follows the ring: *)
(* it waits for the fence of its slot, records, submits, and the graphics  *)
(* queue completes the submissions in order.                               *)
(***************************************************************************)

\* draw_data.total_vtx_count of the overlay handed in.
VertexCounts == { 0, 4, 8 }

\* resize_geometry_buffer: a new GeometryBuffer holding the vertices and
\* indices of the draw data, named by the frame that created it.
ResizeGeometryBuffer(frame, total_vtx_count) ==
    [ created |-> frame, number_of_vertices |-> total_vtx_count ]

\* The frame waits for the in-flight fence of its ring slot: the submission
\* made MAX_FRAMES_IN_FLIGHT frames earlier has completed.
GuiWaitForFence ==
    /\ upc = "wait"
    /\ gui_frame < MaxCalls
    /\ \A s \in gui_pending : s.frame > gui_frame + 1 - MAX_FRAMES_IN_FLIGHT
    /\ gui_frame' = gui_frame + 1
    /\ upc' = "record"
    /\ UNCHANGED << geometry_buffer, gui_recorded, gui_pending, gui_destroyed >>

\* issue_commands: nothing is recorded for an empty overlay; otherwise the
\* geometry buffer is dropped (Buffer::drop destroys it at once), a new one
\* is built from the draw data and bound into the command buffer.
GuiIssueCommands ==
    /\ upc = "record"
    /\ \E total_vtx_count \in VertexCounts :
          IF total_vtx_count = 0
             THEN /\ gui_recorded' = NoGeometryBuffer
                  /\ UNCHANGED << geometry_buffer, gui_destroyed >>
             ELSE /\ gui_destroyed' =
                        IF geometry_buffer = NoGeometryBuffer
                           THEN gui_destroyed
                           ELSE gui_destroyed \cup
                                  { [ buffer |-> geometry_buffer,
                                      at |-> gui_frame,
                                      executing |->
                                         \E s \in gui_pending :
                                            s.buffer = geometry_buffer ] }
                  /\ geometry_buffer' =
                        ResizeGeometryBuffer(gui_frame, total_vtx_count)
                  /\ gui_recorded' = geometry_buffer'
    /\ upc' = "submit"
    /\ UNCHANGED << gui_frame, gui_pending >>

\* The recorded command buffer is submitted to the graphics queue.
GuiSubmit ==
    /\ upc = "submit"
    /\ gui_pending' = gui_pending \cup
                         { [ frame |-> gui_frame, buffer |-> gui_recorded ] }
    /\ upc' = "wait"
    /\ UNCHANGED << gui_frame, geometry_buffer, gui_recorded, gui_destroyed >>

\* The graphics queue completes its oldest submission.
GuiQueueExecute ==
    /\ gui_pending # {}
    /\ \E s \in gui_pending :
          /\ \A t \in gui_pending : s.frame <= t.frame
          /\ gui_pending' = gui_pending \ { s }
    /\ UNCHANGED << upc, gui_frame, geometry_buffer, gui_recorded,
                    gui_destroyed >>

GuiInit == GuiRendererNew /\ upc = "wait"

\* The subsystems the overlay does not touch.
GuiFrame == UNCHANGED << rvars, svars, dvars, gvars, wvars, xvars, hvars, ovars, mvars, bvars >>

GuiNext ==
    \/ GuiWaitForFence /\ GuiFrame
    \/ GuiIssueCommands /\ GuiFrame
    \/ GuiSubmit /\ GuiFrame
    \/ GuiQueueExecute /\ GuiFrame

InitGui == RendererNew /\ AlignIdle /\ AssetsIdle /\ DrawIdle /\ GuiInit /\ UpdateIdle /\ ShaderCacheDefault /\ UploadIdle /\ MipIdle /\ CommandBuffersIdle

SpecGui == InitGui /\ [][GuiNext]_vars

\* C15: no buffer is destroyed while a submitted command buffer that binds
\* it has not completed, which is the least the claim asks of every GPU
\* object: destruction only after a device-idle wait since its last use.
C15_NothingDestroyedInUse ==
    \A d \in gui_destroyed : ~ d.executing

(***************************************************************************)
(* PbrScene::update: the joint matrices and the dynamic uniform records.   *)
(***************************************************************************)

\* The assets placed in the world: number of mesh nodes, and the number of
\* joints of the skin on the first mesh node (0: no skin).
UpdateShapes ==
    { [ meshes |-> 1, joints |-> 0 ],
      [ meshes |-> 2, joints |-> 3 ],
      [ meshes |-> 1, joints |-> 127 ],
      [ meshes |-> 1, joints |-> 130 ],
      [ meshes |-> 60, joints |-> 0 ] }

RECURSIVE InstanceOffsets(_, _)
\* The instance metadata generate_metadata gives the entity at position k:
\* the offsets advanced over every placement before it.
InstanceOffsets(assets, k) ==
    IF k = 1
       THEN [ mesh_offset |-> 0, joint_offset |-> 0 ]
       ELSE LET before == InstanceOffsets(assets, k - 1)
            IN  [ mesh_offset |->
                     AdvanceMeshOffset(before.mesh_offset, TRUE, assets[k - 1]),
                  joint_offset |->
                     AdvanceJointOffset(before.joint_offset, TRUE, assets[k - 1]) ]

\* upload_to_buffer_aligned(data, offset, alignment) for the record of slot
\* offset / alignment: the pointer is moved by offset and the record copied,
\* the size of the buffer is not compared with offset.
UploadToBufferAligned(slot) ==
    [ slot |-> slot, inside |-> slot < MAX_NUMBER_OF_MESHES ]

\* pbr_pipeline_data.dynamic_alignment: the 80 bytes of a
\* DynamicUniformBufferObject rounded up on a device whose minimum uniform
\* buffer offset alignment is 256.
DynamicAlignment == 256

\* buffer.flush(offset, size): the bytes offset .. offset + size - 1.
Flush(offset, size) == [ offset |-> offset, size |-> size ]

UpdateInit ==
    /\ UniformBufferObjectNew
    /\ \E n \in 1 .. MaxEntities :
          \E assets \in [ 1 .. n -> UpdateShapes ] :
             world = [ k \in 1 .. n |->
                         [ asset |-> assets[k],
                           instance |-> InstanceOffsets(assets, k) ] ]
    /\ xpc = "start"

\* The head of update: the skybox uniform is uploaded, the animations are
\* advanced and the uniform buffer object is built with identity joints.
UpdateBegin ==
    /\ xpc = "start"
    /\ xpc' = "node"
    /\ entity_cursor' = 1
    /\ mesh_cursor' = 0
    /\ UNCHANGED << world, joint_cursor, joint_matrices, joint_warnings,
                    skins, dynamic_writes, flushes, xpanic >>

\* The closure of walk_mut enters a mesh node of the entity's asset: with a
\* skin it goes through the joints first, without one straight to the upload.
UpdateNode ==
    /\ xpc = "node"
    /\ entity_cursor <= Len(world)
    /\ LET entity == world[entity_cursor]
       IN  IF mesh_cursor = 0 /\ entity.asset.joints > 0
              THEN /\ skins' = skins \cup
                                 { [ joint_offset |-> entity.instance.joint_offset,
                                     joint_count |-> entity.asset.joints ] }
                   /\ xpc' = "joints"
              ELSE /\ xpc' = "upload"
                   /\ UNCHANGED skins
    /\ joint_cursor' = 0
    /\ UNCHANGED << world, entity_cursor, mesh_cursor, joint_matrices,
                    joint_warnings, dynamic_writes, flushes, xpanic >>

\* Whether ubo.joint_matrices[index], an array of MAX_NUM_JOINTS, exists.
JointInTable(index) == index < MAX_NUM_JOINTS

\* One turn of the loop over skin.joints: the warning is printed if index is
\* above the limit, and ubo.joint_matrices[joint_offset + index] is written
\* whatever the index; indexing the array past its end panics.
UpdateJoint ==
    /\ xpc = "joints"
    /\ joint_cursor < world[entity_cursor].asset.joints
    /\ joint_warnings' = IF joint_cursor > MAX_NUM_JOINTS
                            THEN joint_warnings \cup { joint_cursor }
                            ELSE joint_warnings
    /\ LET target == world[entity_cursor].instance.joint_offset + joint_cursor
       IN  IF JointInTable(target)
              THEN /\ joint_matrices' = joint_matrices \cup { target }
                   /\ joint_cursor' = joint_cursor + 1
                   /\ UNCHANGED << xpc, xpanic >>
              ELSE /\ xpanic' = "index_out_of_bounds"
                   /\ xpc' = "panicked"
                   /\ UNCHANGED << joint_matrices, joint_cursor >>
    /\ UNCHANGED << world, entity_cursor, mesh_cursor, skins, dynamic_writes, flushes >>

\* The loop over skin.joints is through.
UpdateJointsDone ==
    /\ xpc = "joints"
    /\ joint_cursor >= world[entity_cursor].asset.joints
    /\ xpc' = "upload"
    /\ UNCHANGED << world, entity_cursor, mesh_cursor, joint_cursor,
                    joint_matrices, joint_warnings, skins, dynamic_writes, flushes,
                    xpanic >>

\* The record of the mesh is uploaded at dynamic_alignment * (mesh_offset +
\* mesh_id) and flushed; walk_mut goes on to the next mesh node.  A copy past
\* the end of the mapped buffer is undefined: it lands outside, or faults.
UpdateUpload ==
    /\ xpc = "upload"
    /\ LET entity == world[entity_cursor]
           record == UploadToBufferAligned(entity.instance.mesh_offset
                                            + mesh_cursor)
       IN  \/ /\ dynamic_writes' = dynamic_writes \cup { record }
              /\ flushes' = flushes \cup
                    { [ entity |-> entity_cursor, mesh_id |-> mesh_cursor,
                        range |-> Flush(DynamicAlignment
                                          * (entity.instance.mesh_offset + mesh_cursor),
                                        entity.asset.meshes * DynamicAlignment) ] }
              /\ IF mesh_cursor + 1 < entity.asset.meshes
                    THEN /\ mesh_cursor' = mesh_cursor + 1
                         /\ UNCHANGED entity_cursor
                    ELSE /\ mesh_cursor' = 0
                         /\ entity_cursor' = entity_cursor + 1
              /\ xpc' = "node"
              /\ UNCHANGED xpanic
           \/ /\ ~ record.inside
              /\ xpanic' = "fault"
              /\ xpc' = "panicked"
              /\ UNCHANGED << dynamic_writes, flushes, entity_cursor, mesh_cursor >>
    /\ UNCHANGED << world, joint_cursor, joint_matrices, joint_warnings, skins >>

\* Every entity is through: the uniform buffer object is uploaded.
UpdateEnd ==
    /\ xpc = "node"
    /\ entity_cursor > Len(world)
    /\ xpc' = "done"
    /\ UNCHANGED << world, entity_cursor, mesh_cursor, joint_cursor, joint_matrices,
                    joint_warnings, skins, dynamic_writes, flushes, xpanic >>

\* The subsystems update does not touch.
UpdateFrame == UNCHANGED << rvars, svars, dvars, gvars, wvars, uvars, hvars, ovars, mvars, bvars >>

UpdateNext ==
    \/ UpdateBegin /\ UpdateFrame
    \/ UpdateNode /\ UpdateFrame
    \/ UpdateJoint /\ UpdateFrame
    \/ UpdateJointsDone /\ UpdateFrame
    \/ UpdateUpload /\ UpdateFrame
    \/ UpdateEnd /\ UpdateFrame

InitUpdate == RendererNew /\ AlignIdle /\ AssetsIdle /\ DrawIdle /\ GuiIdle /\ UpdateInit /\ ShaderCacheDefault /\ UploadIdle /\ MipIdle /\ CommandBuffersIdle

SpecUpdate == InitUpdate /\ [][UpdateNext]_vars

\* The skins whose joints reach past the end of the joint table.
ExcessSkins ==
    { skin \in skins : skin.joint_offset + skin.joint_count > MAX_NUM_JOINTS }

\* C17: a skin whose joint index would exceed the joint table gets a warning,
\* the excess writes are skipped and update goes on: it does not die and
\* writes no joint matrix outside the table.
C17_ExcessJointsWarnedAndSkipped ==
    /\ \A index \in joint_matrices : index < MAX_NUM_JOINTS
    /\ xpanic # "index_out_of_bounds"
    /\ ( xpc = "done" /\ ExcessSkins # {} ) => joint_warnings # {}

\* The mesh count over all placements.
TotalMeshes ==
    IF world = << >>
       THEN 0
       ELSE InstanceOffsets([ k \in 1 .. Len(world) |-> world[k].asset ],
                            Len(world)).mesh_offset
            + world[Len(world)].asset.meshes

\* C18: no dynamic uniform record is written outside the buffer, and an
\* update of more meshes than the buffer has slots ends in a fatal capacity
\* error instead of going through.
C18_MeshCapacityEnforced ==
    /\ \A record \in dynamic_writes : record.inside
    /\ ( TotalMeshes > MAX_NUMBER_OF_MESHES /\ xpc \in { "done", "panicked" } )
       => xpanic = "capacity"

\* C25: every flush made for a dynamic uniform record covers exactly the
\* mesh range of the instance the record belongs to, from mesh_offset *
\* alignment up to (mesh_offset + mesh_count) * alignment, and that range
\* lies inside the dynamic uniform buffer.
C25_FlushIsInstanceMeshRange ==
    \A flush \in flushes :
        LET entity == world[flush.entity]
        IN  /\ flush.range.offset = entity.instance.mesh_offset * DynamicAlignment
            /\ flush.range.offset + flush.range.size
                  = ( entity.instance.mesh_offset + entity.asset.meshes )
                       * DynamicAlignment
            /\ flush.range.offset + flush.range.size
                  <= MAX_NUMBER_OF_MESHES * DynamicAlignment

(***************************************************************************)
(* ShaderCache: add_shader and create_shader_set.                          *)
(***************************************************************************)

\* The ShaderPathSets handed to create_shader_set: a vertex path and
\* optional paths for the other stages ("None": not set).
ShaderPathSets ==
    { [ vertex |-> "pbr.vert.spv", fragment |-> "pbr.frag.spv",
        geometry |-> "None", tessellation_evaluation |-> "None",
        tessellation_control |-> "None" ],
      [ vertex |-> "fullscreen_triangle.vert.spv",
        fragment |-> "post_process.frag.spv",
        geometry |-> "None", tessellation_evaluation |-> "None",
        tessellation_control |-> "None" ],
      [ vertex |-> "fullscreen_triangle.vert.spv",
        fragment |-> "genbrdflut.frag.spv",
        geometry |-> "None", tessellation_evaluation |-> "None",
        tessellation_control |-> "None" ] }

\* add_shader(path): Shader::from_file reads the file and creates a module,
\* and the module is inserted under the path, replacing what was there.
\* The state is the record of the cache, the load counts and the module
\* count.
AddShaderTo(state, path) ==
    [ cache |-> [ q \in DOMAIN state.cache \cup { path } |->
                    IF q = path THEN state.created + 1 ELSE state.cache[q] ],
      loads |-> [ state.loads EXCEPT ![path] = @ + 1 ],
      created |-> state.created + 1 ]

\* The optional stages of create_shader_set: if let Some(path) = ...
AddOptionalShaderTo(state, path) ==
    IF path = "None" THEN state ELSE AddShaderTo(state, path)

ShaderState ==
    [ cache |-> shader_cache, loads |-> shader_loads,
      created |-> modules_created ]

AddShader ==
    /\ shader_calls < MaxShaderCalls
    /\ \E path \in ShaderPaths :
          LET after_add == AddShaderTo(ShaderState, path)
          IN  /\ shader_cache' = after_add.cache
              /\ shader_loads' = after_add.loads
              /\ modules_created' = after_add.created
    /\ shader_calls' = shader_calls + 1

\* create_shader_set: add_shader for the vertex path, then for each of the
\* fragment, geometry, tessellation evaluation and tessellation control
\* paths that is set.
CreateShaderSet ==
    /\ shader_calls < MaxShaderCalls
    /\ \E shader_paths \in ShaderPathSets :
          LET vertex == AddShaderTo(ShaderState, shader_paths.vertex)
              fragment == AddOptionalShaderTo(vertex, shader_paths.fragment)
              geometry == AddOptionalShaderTo(fragment, shader_paths.geometry)
              evaluation ==
                 AddOptionalShaderTo(geometry,
                                     shader_paths.tessellation_evaluation)
              control ==
                 AddOptionalShaderTo(evaluation,
                                     shader_paths.tessellation_control)
          IN  /\ shader_cache' = control.cache
              /\ shader_loads' = control.loads
              /\ modules_created' = control.created
    /\ shader_calls' = shader_calls + 1

\* The subsystems the shader cache does not touch.
ShaderFrame == UNCHANGED << rvars, svars, dvars, gvars, wvars, uvars, xvars, ovars, mvars, bvars >>

ShaderNext ==
    \/ AddShader /\ ShaderFrame
    \/ CreateShaderSet /\ ShaderFrame

InitShaders == RendererNew /\ AlignIdle /\ AssetsIdle /\ DrawIdle /\ GuiIdle /\ UpdateIdle /\ ShaderCacheDefault /\ UploadIdle /\ MipIdle /\ CommandBuffersIdle

SpecShaders == InitShaders /\ [][ShaderNext]_vars

\* C19: no shader path is loaded into a module more than once per cache.
C19_ShaderLoadedOncePerPath ==
    \A path \in ShaderPaths : shader_loads[path] <= 1

(***************************************************************************)
(* CommandPool::create_device_local_buffer: staging buffer, device-local   *)
(* buffer, and the copy run by execute_command_once.  An error returned by *)
(* execute_command_once is unwrapped by the caller: the panic unwinds and  *)
(* drops both buffers.                                                     *)
(***************************************************************************)

\* The slices uploaded.
HostData ==
    { << 7 >>, << 1, 2 >>, << 2, 1 >>, << 3, 3, 3 >>, << 4, 5, 6 >>,
      << 9, 8, 7, 6 >> }

UploadInit ==
    /\ UploadNothing
    /\ host_data \in HostData
    /\ opc = "start"

\* create_staging_buffer: a host-visible buffer the data is copied into.
CreateStagingBuffer ==
    /\ opc = "start"
    /\ staging_buffer' = [ alive |-> TRUE, data |-> host_data ]
    /\ osteps' = Append(osteps, "staging")
    /\ opc' = "device_local"
    /\ UNCHANGED << host_data, device_local_buffer, command_buffer,
                    fence_wait, copy_done >>

\* Buffer::new_mapped_basic(.., GpuOnly).unwrap()
CreateDeviceLocalBuffer ==
    /\ opc = "device_local"
    /\ \/ /\ device_local_buffer' = [ alive |-> TRUE, data |-> << >> ]
          /\ opc' = "allocate"
       \/ /\ opc' = "unwind"
          /\ UNCHANGED device_local_buffer
    /\ UNCHANGED << host_data, staging_buffer, command_buffer, fence_wait,
                    copy_done, osteps >>

\* execute_command_once: allocate_command_buffers(..)?
AllocateCommandBuffer ==
    /\ opc = "allocate"
    /\ \/ /\ command_buffer' = "allocated"
          /\ osteps' = Append(osteps, "allocate")
          /\ opc' = "record"
       \/ /\ opc' = "unwind"
          /\ UNCHANGED << command_buffer, osteps >>
    /\ UNCHANGED << host_data, staging_buffer, device_local_buffer,
                    fence_wait, copy_done >>

\* record_command_buffer(.., ONE_TIME_SUBMIT, executor): cmd_copy_buffer
RecordCommandBuffer ==
    /\ opc = "record"
    /\ command_buffer' = "recorded"
    /\ osteps' = Append(osteps, "record")
    /\ opc' = "submit"
    /\ UNCHANGED << host_data, staging_buffer, device_local_buffer,
                    fence_wait, copy_done >>

\* Fence::new(..)? and queue_submit(queue, .., fence)?
QueueSubmit ==
    /\ opc = "submit"
    /\ \/ /\ command_buffer' = "pending"
          /\ osteps' = Append(osteps, "submit")
          /\ opc' = "wait"
       \/ /\ opc' = "unwind"
          /\ UNCHANGED << command_buffer, osteps >>
    /\ UNCHANGED << host_data, staging_buffer, device_local_buffer,
                    fence_wait, copy_done >>

\* wait_for_fences(&[fence], true, 100_000_000_000)?: Ok once the fence is
\* signaled, an error on time-out or device loss.
WaitForFences_noWait ==
    /\ opc = "wait"
    /\ fence_wait' = "ok"
    /\ opc' = "free"
    /\ osteps' = Append(osteps, "wait")
    /\ UNCHANGED << host_data, staging_buffer, device_local_buffer,
                    command_buffer, copy_done >>

WaitForFences ==
    /\ opc = "wait"
    /\ \/ /\ copy_done
          /\ fence_wait' = "ok"
          /\ opc' = "free"
       \/ /\ fence_wait' = "error"
          /\ opc' = "unwind"
    /\ osteps' = Append(osteps, "wait")
    /\ UNCHANGED << host_data, staging_buffer, device_local_buffer,
                    command_buffer, copy_done >>

\* queue_wait_idle(queue)?, then free_command_buffers
FreeCommandBuffer ==
    /\ opc = "free"
    /\ \/ /\ copy_done
          /\ command_buffer' = "freed"
          /\ osteps' = Append(osteps, "free")
          /\ opc' = "return"
       \/ /\ opc' = "unwind"
          /\ UNCHANGED << command_buffer, osteps >>
    /\ UNCHANGED << host_data, staging_buffer, device_local_buffer,
                    fence_wait, copy_done >>

\* create_device_local_buffer returns the device-local buffer; the staging
\* buffer goes out of scope and is destroyed.
ReturnDeviceLocalBuffer ==
    /\ opc = "return"
    /\ staging_buffer' = [ staging_buffer EXCEPT !.alive = FALSE ]
    /\ osteps' = Append(osteps, "destroy_staging")
    /\ opc' = "done"
    /\ UNCHANGED << host_data, device_local_buffer, command_buffer,
                    fence_wait, copy_done >>

\* The panic of an unwrap unwinds: the buffers created so far are dropped.
UnwindUpload ==
    /\ opc = "unwind"
    /\ staging_buffer' = [ staging_buffer EXCEPT !.alive = FALSE ]
    /\ device_local_buffer' = [ device_local_buffer EXCEPT !.alive = FALSE ]
    /\ osteps' = Append(osteps, "destroy_staging")
    /\ opc' = "panicked"
    /\ UNCHANGED << host_data, command_buffer, fence_wait, copy_done >>

\* The graphics queue executes the copy and signals the fence.  Reading a
\* staging buffer that was destroyed is undefined: any data may arrive.
CopyExecute ==
    /\ command_buffer = "pending"
    /\ ~ copy_done
    /\ copy_done' = TRUE
    /\ \E arrived \in HostData :
          /\ staging_buffer.alive => arrived = staging_buffer.data
          /\ device_local_buffer' =
                [ device_local_buffer EXCEPT !.data = arrived ]
    /\ UNCHANGED << opc, host_data, staging_buffer, command_buffer,
                    fence_wait, osteps >>

\* The subsystems an upload does not touch.
UploadFrame == UNCHANGED << rvars, svars, dvars, gvars, wvars, uvars, xvars, hvars, mvars, bvars >>

UploadNext ==
    \/ CreateStagingBuffer /\ UploadFrame
    \/ CreateDeviceLocalBuffer /\ UploadFrame
    \/ AllocateCommandBuffer /\ UploadFrame
    \/ RecordCommandBuffer /\ UploadFrame
    \/ QueueSubmit /\ UploadFrame
    \/ WaitForFences /\ UploadFrame
    \/ FreeCommandBuffer /\ UploadFrame
    \/ ReturnDeviceLocalBuffer /\ UploadFrame
    \/ UnwindUpload /\ UploadFrame
    \/ CopyExecute /\ UploadFrame

InitUpload == RendererNew /\ AlignIdle /\ AssetsIdle /\ DrawIdle /\ GuiIdle /\ UpdateIdle /\ ShaderCacheDefault /\ UploadInit /\ MipIdle /\ CommandBuffersIdle

SpecUpload == InitUpload /\ [][UploadNext]_vars

\* The steps of the one-shot command among the steps of the upload.
OneShotSteps ==
    SelectSeq(osteps, LAMBDA step :
                 step \in { "allocate", "record", "submit", "wait", "free" })

IsPrefix(short, long) ==
    /\ Len(short) <= Len(long)
    /\ \A i \in 1 .. Len(short) : short[i] = long[i]

\* C20: an upload starts by filling a staging buffer; the steps of its
\* one-shot command come in the order allocate, record, submit, wait, free;
\* the command buffer is freed only after the fence wait returned with the
\* copy executed, and once the copy is submitted the staging buffer is not
\* destroyed before the fence wait returned.  A finished upload has put the
\* host data into the device-local buffer.
C20_StagedOneShotUpload ==
    /\ osteps # << >> => osteps[1] = "staging"
    /\ IsPrefix(OneShotSteps,
                << "allocate", "record", "submit", "wait", "free" >>)
    /\ fence_wait = "ok" => copy_done
    /\ command_buffer = "freed" => fence_wait = "ok"
    /\ ( ~ staging_buffer.alive /\ command_buffer \in { "pending", "freed" } )
          => fence_wait # "none"
    /\ opc = "done" => device_local_buffer.data = host_data

\* An upload of several elements went through all its steps.
C20_Witness ==
    /\ opc = "done"
    /\ Len(host_data) >= 2
    /\ command_buffer = "freed"
    /\ ~ staging_buffer.alive
    /\ device_local_buffer = [ alive |-> TRUE, data |-> host_data ]

\* C30: once execute_command_once has returned, with Ok or with Err, the
\* command buffer it allocated has been freed: the pool has no command
\* buffer outstanding that it did not have before the call.
C30_OneShotCommandBufferFreedOnReturn ==
    opc \in { "return", "done", "unwind", "panicked" } =>
        command_buffer \in { "none", "freed" }

(***************************************************************************)
(* PbrScene::issue_commands: the draws recorded inside one render pass.    *)
(***************************************************************************)

\* A primitive is named by the alpha mode of its material, "none" if it has
\* no material.  An asset is the list of its primitives, in the order the
\* walk over the nodes and each mesh's primitives meets them.
PrimitiveLists ==
    { << "Opaque" >>,
      << "Blend", "none" >>,
      << "Mask", "Blend" >>,
      << "Blend", "Mask", "Opaque" >> }

InstanceCounts == { 1, 2 }

\* [AlphaMode::Opaque, AlphaMode::Mask, AlphaMode::Blend]
AlphaModes_blendFirst == << "Blend", "Opaque", "Mask" >>

AlphaModes == << "Opaque", "Mask", "Blend" >>

\* primitive_alpha_mode: Opaque unless the primitive has a material
PrimitiveAlphaMode(primitive) ==
    IF primitive = "none" THEN "Opaque" ELSE primitive

RECURSIVE DrawAssetFrom(_, _, _, _, _)
\* draw_asset: one cmd_draw_indexed for every primitive of the asset whose
\* alpha mode is the one asked for; the others are skipped.
DrawAssetFrom(asset, index, instance, alpha_mode, k) ==
    IF k > Len(asset.primitives)
       THEN << >>
       ELSE ( IF PrimitiveAlphaMode(asset.primitives[k]) # alpha_mode
                 THEN << >>
                 ELSE << [ op |-> "draw", asset |-> index,
                           instance |-> instance, primitive |-> k,
                           mode |-> PrimitiveAlphaMode(asset.primitives[k]) ] >> )
            \o DrawAssetFrom(asset, index, instance, alpha_mode, k + 1)

DrawAsset(asset, index, instance, alpha_mode) ==
    DrawAssetFrom(asset, index, instance, alpha_mode, 1)

DrawInit ==
    /\ scene \in UNION { [ 1 .. n -> [ primitives : PrimitiveLists,
                                        instances : InstanceCounts ] ] :
                         n \in 1 .. MaxSceneAssets }
    /\ dpc = "skybox"
    /\ pass = 0
    /\ asset_cursor = 0
    /\ instance_cursor = 0
    /\ commands = << >>

\* render_skybox, then the vertex and index buffer binds of
\* render_pbr_assets.
RenderSkybox ==
    /\ dpc = "skybox"
    /\ commands' = << [ op |-> "bind_pipeline", pipeline |-> "skybox" ],
                      [ op |-> "draw_skybox" ],
                      [ op |-> "bind_vertex_buffers" ],
                      [ op |-> "bind_index_buffer" ] >>
    /\ pass' = 1
    /\ dpc' = "bind"
    /\ UNCHANGED << scene, asset_cursor, instance_cursor >>

\* The match at the head of a pass: Opaque binds the PBR pipeline, Blend the
\* blended one, Mask binds nothing.
BindPassPipeline ==
    /\ dpc = "bind"
    /\ commands' =
          commands \o
             ( CASE AlphaModes[pass] = "Opaque" ->
                      << [ op |-> "bind_pipeline", pipeline |-> "pbr" ] >>
                 [] AlphaModes[pass] = "Blend" ->
                      << [ op |-> "bind_pipeline", pipeline |-> "pbr_blend" ] >>
                 [] OTHER -> << >> )
    /\ asset_cursor' = 1
    /\ instance_cursor' = 0
    /\ dpc' = "draw"
    /\ UNCHANGED << scene, pass >>

\* One draw_asset call of the loops over metadata and instances.
DrawNextInstance ==
    /\ dpc = "draw"
    /\ asset_cursor <= Len(scene)
    /\ commands' = commands \o DrawAsset(scene[asset_cursor], asset_cursor,
                                         instance_cursor, AlphaModes[pass])
    /\ IF instance_cursor + 1 < scene[asset_cursor].instances
          THEN /\ instance_cursor' = instance_cursor + 1
               /\ UNCHANGED asset_cursor
          ELSE /\ instance_cursor' = 0
               /\ asset_cursor' = asset_cursor + 1
    /\ UNCHANGED << scene, dpc, pass >>

\* The loop over metadata is through: the next alpha mode, or return.
EndPass ==
    /\ dpc = "draw"
    /\ asset_cursor > Len(scene)
    /\ IF pass < Len(AlphaModes)
          THEN /\ pass' = pass + 1
               /\ dpc' = "bind"
          ELSE /\ dpc' = "done"
               /\ UNCHANGED pass
    /\ UNCHANGED << scene, asset_cursor, instance_cursor, commands >>

\* The subsystems issue_commands does not touch.
DrawFrame == UNCHANGED << rvars, svars, dvars, gvars, uvars, xvars, hvars, ovars, mvars, bvars >>

DrawNext ==
    \/ RenderSkybox /\ DrawFrame
    \/ BindPassPipeline /\ DrawFrame
    \/ DrawNextInstance /\ DrawFrame
    \/ EndPass /\ DrawFrame

InitDraw == RendererNew /\ AlignIdle /\ AssetsIdle /\ DrawInit /\ GuiIdle /\ UpdateIdle /\ ShaderCacheDefault /\ UploadIdle /\ MipIdle /\ CommandBuffersIdle

SpecDraw == InitDraw /\ [][DrawNext]_vars

DrawsOf(modes) ==
    { i \in 1 .. Len(commands) :
         commands[i].op = "draw" /\ commands[i].mode \in modes }

\* RenderPipelineSettingsBuilder::default(): what the builder leaves at its
\* default unless a setter is called.
RenderPipelineSettingsDefault ==
    [ blended |-> FALSE, depth_test_enabled |-> TRUE,
      depth_write_enabled |-> TRUE ]

\* The pipelines recreate_pipelines builds: the PBR pipeline from the
\* settings, the blended one from a clone with blended set, and the skybox
\* pipeline with depth test and depth write off.
RecreatePipelines ==
    [ pbr |-> RenderPipelineSettingsDefault,
      pbr_blend |-> [ RenderPipelineSettingsDefault EXCEPT !.blended = TRUE ],
      skybox |-> [ RenderPipelineSettingsDefault EXCEPT
                      !.depth_test_enabled = FALSE,
                      !.depth_write_enabled = FALSE ] ]

\* The settings of the pipeline bound when command i is recorded: those of
\* the last bind_pipeline before it.
BoundPipeline(i) ==
    LET binds == { j \in 1 .. (i - 1) : commands[j].op = "bind_pipeline" }
        last == CHOOSE j \in binds : \A k \in binds : k <= j
    IN  RecreatePipelines[commands[last].pipeline]

\* C24: at every PBR draw a pipeline is bound, and it is the blended variant
\* (blending enabled, depth write disabled) exactly when the primitive drawn
\* is a Blend primitive; Opaque and Mask primitives are drawn with blending
\* off and depth write on.
C24_BlendedVariantIffBlend ==
    \A i \in DrawsOf({ "Opaque", "Mask", "Blend" }) :
        /\ \E j \in 1 .. (i - 1) : commands[j].op = "bind_pipeline"
        /\ IF commands[i].mode = "Blend"
              THEN /\ BoundPipeline(i).blended
                   /\ ~ BoundPipeline(i).depth_write_enabled
              ELSE /\ ~ BoundPipeline(i).blended
                   /\ BoundPipeline(i).depth_write_enabled

\* C13: in the commands recorded so far, the skybox draw comes before every
\* PBR draw, and every Blend draw comes after every Opaque and Mask draw.
C13_SkyboxThenOpaqueMaskThenBlend ==
    /\ \A i \in DrawsOf({ "Opaque", "Mask", "Blend" }) :
          \E j \in 1 .. (i - 1) : commands[j].op = "draw_skybox"
    /\ \A i \in DrawsOf({ "Blend" }) :
          \A j \in DrawsOf({ "Opaque", "Mask" }) : j < i

\* All three modes drawn, from an asset that lists a Blend primitive first.
C13_Witness ==
    /\ dpc = "done"
    /\ DrawsOf({ "Opaque" }) # {}
    /\ DrawsOf({ "Mask" }) # {}
    /\ DrawsOf({ "Blend" }) # {}
    /\ \E a \in 1 .. Len(scene) :
          /\ scene[a].primitives[1] = "Blend"
          /\ scene[a].instances = 2
    /\ Len(scene) = 2

(***************************************************************************)
(* Texture::generate_mipmaps, one action per one-shot command.  Every      *)
(* level of the image is in TRANSFER_DST_OPTIMAL when it starts            *)
(* (upload_texture_data has transitioned all of them and copied level 0).  *)
(***************************************************************************)

MipInit ==
    /\ texture_description \in [ width : 1 .. MaxTextureSize,
                                 height : 1 .. MaxTextureSize,
                                 mip_levels : 1 .. MaxMipLevels ]
    /\ MipStart
    /\ mpc = "check_format"

\* if mip_width > 1 { mip_width / 2 } else { mip_width }
NextMipExtent_noClamp(size) == size \div 2

NextMipExtent(size) == IF size > 1 THEN size \div 2 ELSE size

\* A barrier on one level: the level takes new_layout; the command records
\* whether the level was in the old_layout the barrier names.
TransitionImageLayout(mip, old_layout, new_layout) ==
    /\ layouts' = [ layouts EXCEPT ![mip] = new_layout ]
    /\ mip_commands' = Append(mip_commands,
           [ command |-> "barrier", mip |-> mip, old_layout |-> old_layout,
             new_layout |-> new_layout, valid |-> layouts[mip] = old_layout ])

\* The format must support linear blitting, or generate_mipmaps panics.
MipCheckFormat ==
    /\ mpc = "check_format"
    /\ \E linear \in BOOLEAN :
          mpc' = IF linear THEN "loop" ELSE "panicked"
    /\ UNCHANGED << texture_description, level, mip_width, mip_height,
                    layouts, mip_commands >>

\* for level in 1..mip_levels: level - 1 goes to TRANSFER_SRC_OPTIMAL.
MipToTransferSrc ==
    /\ mpc = "loop"
    /\ level < texture_description.mip_levels
    /\ TransitionImageLayout(level - 1, "TRANSFER_DST_OPTIMAL",
                             "TRANSFER_SRC_OPTIMAL")
    /\ mpc' = "blit"
    /\ UNCHANGED << texture_description, level, mip_width, mip_height >>

\* cmd_blit_image from level - 1 into level.
MipBlit ==
    /\ mpc = "blit"
    /\ mip_commands' = Append(mip_commands,
           [ command |-> "blit", src |-> level - 1, dst |-> level,
             src_width |-> mip_width, src_height |-> mip_height,
             dst_width |-> NextMipExtent(mip_width),
             dst_height |-> NextMipExtent(mip_height),
             valid |-> /\ layouts[level - 1] = "TRANSFER_SRC_OPTIMAL"
                       /\ layouts[level] = "TRANSFER_DST_OPTIMAL" ])
    /\ mpc' = "to_shader_read"
    /\ UNCHANGED << texture_description, level, mip_width, mip_height,
                    layouts >>

\* level - 1 goes to SHADER_READ_ONLY_OPTIMAL; the loop moves on.
MipToShaderRead ==
    /\ mpc = "to_shader_read"
    /\ TransitionImageLayout(level - 1, "TRANSFER_SRC_OPTIMAL",
                             "SHADER_READ_ONLY_OPTIMAL")
    /\ mip_width' = NextMipExtent(mip_width)
    /\ mip_height' = NextMipExtent(mip_height)
    /\ level' = level + 1
    /\ mpc' = "loop"
    /\ UNCHANGED texture_description

\* After the loop: the last level goes to SHADER_READ_ONLY_OPTIMAL.
MipLastToShaderRead ==
    /\ mpc = "loop"
    /\ level >= texture_description.mip_levels
    /\ TransitionImageLayout(texture_description.mip_levels - 1,
                             "TRANSFER_DST_OPTIMAL",
                             "SHADER_READ_ONLY_OPTIMAL")
    /\ mpc' = "done"
    /\ UNCHANGED << texture_description, level, mip_width, mip_height >>

\* A one-shot command fails: the error is returned with `?`.
MipCommandFails ==
    /\ mpc \in { "loop", "blit", "to_shader_read" }
    /\ mpc' = "failed"
    /\ UNCHANGED << texture_description, level, mip_width, mip_height,
                    layouts, mip_commands >>

MipFrame == UNCHANGED << rvars, svars, dvars, gvars, wvars, uvars, xvars, hvars, ovars, bvars >>

MipNext ==
    \/ MipCheckFormat /\ MipFrame
    \/ MipToTransferSrc /\ MipFrame
    \/ MipBlit /\ MipFrame
    \/ MipToShaderRead /\ MipFrame
    \/ MipLastToShaderRead /\ MipFrame
    \/ MipCommandFails /\ MipFrame

InitMip == RendererNew /\ AlignIdle /\ AssetsIdle /\ DrawIdle /\ GuiIdle /\ UpdateIdle /\ ShaderCacheDefault /\ UploadIdle /\ MipInit /\ CommandBuffersIdle

SpecMip == InitMip /\ [][MipNext]_vars

\* C21: the commands of generate_mipmaps come in threes, one three per level
\* N in 1..L-1 and in that order: level N-1 to transfer-source, a blit of
\* level N-1 into level N at half resolution (rounded down, at least 1),
\* level N-1 to shader-read; then the last level goes from
\* transfer-destination to shader-read.  Every barrier finds its level in
\* the layout it names, and when generate_mipmaps returns Ok every level is
\* in shader-read layout.
C21_MipChainBlitAndBarrier ==
    LET L == texture_description.mip_levels
        count == Len(mip_commands)
        HalfResolution(size, mip) ==
            IF size \div (2 ^ mip) >= 1 THEN size \div (2 ^ mip) ELSE 1
    IN  /\ count <= 3 * (L - 1) + 1
        /\ \A i \in 1 .. count :
              LET N == ((i - 1) \div 3) + 1
                  step == (i - 1) % 3
                  c == mip_commands[i]
              IN  /\ c.valid
                  /\ ( N < L /\ step = 0 ) =>
                        /\ c.command = "barrier" /\ c.mip = N - 1
                        /\ c.old_layout = "TRANSFER_DST_OPTIMAL"
                        /\ c.new_layout = "TRANSFER_SRC_OPTIMAL"
                  /\ ( N < L /\ step = 1 ) =>
                        /\ c.command = "blit" /\ c.src = N - 1 /\ c.dst = N
                        /\ c.src_width = HalfResolution(texture_description.width, N - 1)
                        /\ c.src_height = HalfResolution(texture_description.height, N - 1)
                        /\ c.dst_width = HalfResolution(texture_description.width, N)
                        /\ c.dst_height = HalfResolution(texture_description.height, N)
                  /\ ( N < L /\ step = 2 ) =>
                        /\ c.command = "barrier" /\ c.mip = N - 1
                        /\ c.old_layout = "TRANSFER_SRC_OPTIMAL"
                        /\ c.new_layout = "SHADER_READ_ONLY_OPTIMAL"
                  /\ N = L =>
                        /\ c.command = "barrier" /\ c.mip = L - 1
                        /\ c.old_layout = "TRANSFER_DST_OPTIMAL"
                        /\ c.new_layout = "SHADER_READ_ONLY_OPTIMAL"
        /\ mpc = "done" =>
              /\ count = 3 * (L - 1) + 1
              /\ \A mip \in 0 .. (L - 1) :
                    layouts[mip] = "SHADER_READ_ONLY_OPTIMAL"

\* A texture of three levels, narrower than its chain is long, has been
\* through generate_mipmaps: the clamp at 1 was needed.
C21_Witness ==
    /\ mpc = "done"
    /\ texture_description.mip_levels >= 3
    /\ texture_description.width = 2
    /\ texture_description.height > 2

(***************************************************************************)
(* The primary command buffers and the framebuffers: initialize allocates  *)
(* one command buffer per framebuffer, recreate_swapchain rebuilds the     *)
(* framebuffers for the images of the new swapchain and records the        *)
(* command buffers the pool holds, render submits the command buffer of    *)
(* the image it acquired.                                                  *)
(***************************************************************************)

\* The numbers of images a swapchain can have.
ImageCounts == 2 .. MaxImageCount

\* VulkanRenderer::new has built the swapchain and its handles.
CommandBuffersInit ==
    /\ CommandPoolNew
    /\ framebuffers \in ImageCounts
    /\ bpc = "initialize"

\* allocate_command_buffers(size): the pool holds size new command buffers.
AllocateCommandBuffers(size) == [ index \in 0 .. (size - 1) |-> << >> ]

\* initialize: allocate_command_buffers(framebuffers.len()).unwrap(), then
\* record_all_command_buffers.
Initialize ==
    /\ bpc = "initialize"
    /\ \/ /\ pool_command_buffers' = AllocateCommandBuffers(framebuffers)
          /\ record_index' = 0
          /\ bpc' = "record"
          /\ UNCHANGED bpanic
       \/ /\ bpanic' = "allocate_failed"
          /\ bpc' = "panicked"
          /\ UNCHANGED << pool_command_buffers, record_index >>
    /\ UNCHANGED << framebuffers, framebuffer_generation, submit_index >>

\* One iteration of record_all_command_buffers: the command buffer at index
\* is recorded against framebuffers[index]; the index is bounds-checked.
RecordNextCommandBuffer ==
    /\ bpc = "record"
    /\ record_index \in DOMAIN pool_command_buffers
    /\ IF record_index < framebuffers
          THEN /\ pool_command_buffers' =
                     [ pool_command_buffers EXCEPT
                          ![record_index] = << framebuffer_generation, record_index >> ]
               /\ record_index' = record_index + 1
               /\ UNCHANGED << bpc, bpanic >>
          ELSE /\ bpanic' = "index_out_of_bounds"
               /\ bpc' = "panicked"
               /\ UNCHANGED << pool_command_buffers, record_index >>
    /\ UNCHANGED << framebuffers, framebuffer_generation, submit_index >>

RecordAllDone ==
    /\ bpc = "record"
    /\ record_index \notin DOMAIN pool_command_buffers
    /\ bpc' = "idle"
    /\ UNCHANGED << framebuffers, framebuffer_generation, pool_command_buffers,
                    record_index, submit_index, bpanic >>

\* recreate_swapchain: the new swapchain has some number of images, the
\* handles get one framebuffer per image, and the command buffers the pool
\* already holds are recorded again; none is allocated or freed.
RecreateHandles ==
    /\ bpc = "idle"
    /\ framebuffer_generation < MaxRebuilds
    /\ framebuffers' \in ImageCounts
    /\ framebuffer_generation' = framebuffer_generation + 1
    /\ record_index' = 0
    /\ bpc' = "record"
    /\ UNCHANGED << pool_command_buffers, submit_index, bpanic >>

\* render: acquire_next_image hands out an image of the swapchain, and
\* submit_command_buffer takes self.command_buffers()[index].
SubmitAcquiredImage ==
    /\ bpc = "idle"
    /\ \E image \in 0 .. (framebuffers - 1) :
          /\ submit_index' = image
          /\ IF image \in DOMAIN pool_command_buffers
                THEN UNCHANGED << bpc, bpanic >>
                ELSE /\ bpanic' = "index_out_of_bounds"
                     /\ bpc' = "panicked"
    /\ UNCHANGED << framebuffers, framebuffer_generation, pool_command_buffers,
                    record_index >>

CommandBuffersFrame == UNCHANGED << rvars, svars, dvars, gvars, wvars, uvars, xvars, hvars, ovars, mvars >>

CommandBuffersNext ==
    \/ Initialize /\ CommandBuffersFrame
    \/ RecordNextCommandBuffer /\ CommandBuffersFrame
    \/ RecordAllDone /\ CommandBuffersFrame
    \/ RecreateHandles /\ CommandBuffersFrame
    \/ SubmitAcquiredImage /\ CommandBuffersFrame

InitCommandBuffers == RendererNew /\ AlignIdle /\ AssetsIdle /\ DrawIdle /\ GuiIdle /\ UpdateIdle /\ ShaderCacheDefault /\ UploadIdle /\ MipIdle /\ CommandBuffersInit

SpecCommandBuffers == InitCommandBuffers /\ [][CommandBuffersNext]_vars

\* C28: once initialize or a swapchain rebuild is through, the pool holds as
\* many primary command buffers as the current handles have framebuffers,
\* each recorded against the framebuffer of its own index, and neither the
\* recording nor a submission has indexed out of range.
C28_CommandBuffersMatchFramebuffers ==
    /\ bpanic # "index_out_of_bounds"
    /\ bpc = "idle" =>
          /\ DOMAIN pool_command_buffers = 0 .. (framebuffers - 1)
          /\ \A index \in DOMAIN pool_command_buffers :
                pool_command_buffers[index] = << framebuffer_generation, index >>
====
